---- MODULE Spec2Model ----
(***************************************************************************)
(* Score aggregation and recalculation engine of the "better" Django app   *)
(* (apps/better): Importance, ScoreDay, TargetCategory and Target rows,    *)
(* the calculate_scores methods of models.py, the post_save / post_delete  *)
(* receivers of signals.py and the operations of models.py / views.py that *)
(* write to them.  Every operation is one atomic step (one request).       *)
(***************************************************************************)
EXTENDS Integers, FiniteSets, Sequences, TLC

\* ------------------------------------------------------------------ bounds
MaxDays == 3
MaxCategories == 3
MaxTargets == 3
MaxImportances == 2
MaxImpScore == 2
\* distinct values of a text column (name, description)
MaxTexts == 3
\* number of operations (requests) in a run
MaxOps == 7

\* distinct words an importance label can be
MaxLabels == 2

\* the times of day a form can carry are 0..MaxTime
MaxTime == 2

\* the stored scores whose display value is computed are 0..MaxStored
MaxStored == 150

\* requests that run at the same time
MaxProcs == 2

\* nested calculate_scores calls after which the interpreter gives up
\* (RecursionError)
RecursionLimit == 4

\* a NULL column (score / max_score are null=True)
Null == -1

DayIds == 1..MaxDays
CatIds == 1..MaxCategories
TargetIds == 1..MaxTargets
ImpIds == 1..MaxImportances
ImpScores == 1..MaxImpScore
Texts == 1..MaxTexts
Procs == 1..MaxProcs
Times == 0..MaxTime
\* a word w of words comes in two spellings of upper and lower case, w and
\* w + words
Spellings(words) == 1..(2 * words)
\* the labels a form can carry; 0 is the empty label
Labels == {0} \cup Spellings(MaxLabels)
\* the names a category form can carry
Names == Spellings(MaxTexts)

\* ------------------------------------------------------------------- state
VARIABLES
    imps,   \* Importance rows:     id -> [exists, score]
    days,   \* ScoreDay rows:       date -> [exists, is_deleted, score, max_score]
    cats,   \* TargetCategory rows: id -> [exists, day, name, description, is_deleted,
            \*                             score, max_score]
    tgts,   \* Target rows:         id -> [exists, name, category, importance, is_achieved,
            \*                             is_deleted]
    today,  \* timezone.now().date()
    last,   \* the operation that produced this state and what it returned
    nops,   \* operations performed so far
    receivers,  \* whether the @receiver functions of signals.py are connected
    procs   \* the requests in progress: process -> its position and its locals

vars == <<imps, days, cats, tgts, today, last, nops, receivers, procs>>

\* class Importance
NoImportance == [exists |-> FALSE, label |-> 0, score |-> 0]
\* class ScoreDay
NoScoreDay ==
    [exists |-> FALSE, is_deleted |-> FALSE, score |-> Null, max_score |-> Null,
     wake_time |-> Null, sleep_time |-> Null]
\* class TargetCategory
NoTargetCategory ==
    [exists |-> FALSE, day |-> 0, name |-> 0, description |-> 0, is_deleted |-> FALSE,
     score |-> Null, max_score |-> Null]
\* class Target
NoTarget ==
    [exists |-> FALSE, name |-> 0, category |-> 0, importance |-> 0,
     is_achieved |-> FALSE, is_deleted |-> FALSE]

\* the database as one value, for the methods that read and write it, with
\* the call stack of the running operation: depth is the number of
\* calculate_scores calls that are active, calls the number made so far,
\* overflow whether a call hit the recursion limit
DB ==
    [imps |-> imps, days |-> days, cats |-> cats, tgts |-> tgts,
     depth |-> 0, calls |-> 0, overflow |-> FALSE]

\* wake and sleep are the times a sleep/wake form carried;
\* m is the global maximum importance score before the operation, calls the
\* number of calculate_scores calls it made, done whether it ran to its end,
\* again whether it repeats the direct recompute that was the operation before,
\* status the HTTP status a view answered an HTMX request with, value the
\* number an operation returned, name the name a category create request
\* carried, twice whether a toggle repeats the toggle of the same target
\* that was the operation before, stale whether a direct recompute of a day
\* found a category of it whose stored scores it had to change
NoOp ==
    [op |-> "init", day |-> 0, cat |-> 0, tgt |-> 0, imp |-> 0,
     ok |-> TRUE, count |-> 0, m |-> 0, calls |-> 0, done |-> TRUE,
     again |-> FALSE, wake |-> Null, sleep |-> Null, status |-> 0, value |-> 0,
     stale |-> FALSE, name |-> 0, twice |-> FALSE]

\* ----------------------------------------------------------------- helpers
RECURSIVE SumF(_, _)
SumF(f, S) ==
    IF S = {} THEN 0
    ELSE LET x == CHOOSE y \in S : TRUE IN f[x] + SumF(f, S \ {x})

MaxOf(S) == CHOOSE x \in S : \A y \in S : y <= x
MinOf(S) == CHOOSE x \in S : \A y \in S : x <= y

\* SQL SUM / Python "or 0": NULL counts as 0
NullAsZero(v) == IF v = Null THEN 0 ELSE v

\* iexact compared case-sensitively
Fold_exact(text, words) == text

\* label__iexact, name__iexact: two texts match when they are equal ignoring
\* case
Fold(text, words) ==
    IF text > words THEN text - words ELSE text

\* OrZero without the "or 0": None is kept
OrZero_keepnull(v) == v

\* Python "totals[...] or 0": None (and 0) become 0
OrZero(v) ==
    IF v = Null \/ v = 0 THEN 0 ELSE v

\* models.Sum over the rows S of the column f: NULL when no row has a value
SqlSum(f, S) ==
    LET N == {x \in S : f[x] # Null}
    IN  IF N = {} THEN Null ELSE SumF(f, N)

\* ActiveTargets without the is_deleted=False filter
ActiveTargets_unfiltered(d, c) ==
    {t \in TargetIds : d.tgts[t].exists /\ d.tgts[t].category = c}

\* self.targets.filter(is_deleted=False)
ActiveTargets(d, c) ==
    {t \in TargetIds : d.tgts[t].exists /\ d.tgts[t].category = c /\ ~d.tgts[t].is_deleted}

\* self.categories.filter(is_deleted=False)
ActiveCategories(d, day) ==
    {c \in CatIds : d.cats[c].exists /\ d.cats[c].day = day /\ ~d.cats[c].is_deleted}

\* get_max_score aggregating with Min instead of Max
get_max_score_min(d) ==
    LET S == {d.imps[i].score : i \in {j \in ImpIds : d.imps[j].exists}}
    IN  IF S = {} THEN 0 ELSE MinOf(S)

\* Importance.get_max_score
get_max_score(d) ==
    LET S == {d.imps[i].score : i \in {j \in ImpIds : d.imps[j].exists}}
    IN  IF S = {} THEN 0 ELSE MaxOf(S)

\* BetterConfig.ready: it imports apps.better.models, and no module imports
\* apps.better.signals, so the @receiver functions of signals.py are never
\* connected to post_save / post_delete.
SignalsConnected == FALSE

RECURSIVE ScoreDay_calculate_scores(_, _)
RECURSIVE TargetCategory_calculate_scores(_, _)
RECURSIVE CalculateEach(_, _)

\* target_category_post_save_handler without the update_fields test
target_category_post_save_handler_anysave(d, c, update_fields) ==
    ScoreDay_calculate_scores(d, d.cats[c].day)

\* signals.target_category_post_save_handler; update_fields is TRUE for the
\* save(update_fields=[...]) of calculate_scores, FALSE for a plain save()
target_category_post_save_handler(d, c, update_fields) ==
    IF ~d.cats[c].is_deleted /\ ~update_fields
    THEN ScoreDay_calculate_scores(d, d.cats[c].day)
    ELSE IF d.cats[c].is_deleted
         THEN ScoreDay_calculate_scores(d, d.cats[c].day)
         ELSE d

\* post_save dispatch of a TargetCategory save
TargetCategory_post_save(d, c, update_fields) ==
    IF receivers THEN target_category_post_save_handler(d, c, update_fields) ELSE d

\* calculate_scores without the is_achieved=True filter
TargetCategory_calculate_scores_unachieved(d, c) ==
    LET targets == ActiveTargets(d, c)
        score == SumF([t \in targets |-> d.imps[d.tgts[t].importance].score], targets)
        saved == [d EXCEPT !.cats[c].score = score,
                           !.cats[c].max_score = Cardinality(targets) * get_max_score(d)]
    IN  TargetCategory_post_save(saved, c, TRUE)

\* calculate_scores adding the achieved sum to the stored score
TargetCategory_calculate_scores_accumulate(d, c) ==
    LET targets == ActiveTargets(d, c)
        achieved_targets == {t \in targets : d.tgts[t].is_achieved}
        score == SumF([t \in achieved_targets |-> d.imps[d.tgts[t].importance].score],
                      achieved_targets)
        saved == [d EXCEPT !.cats[c].score = NullAsZero(@) + score,
                           !.cats[c].max_score = Cardinality(targets) * get_max_score(d)]
    IN  TargetCategory_post_save(saved, c, TRUE)

\* a call of calculate_scores enters: d with the frame pushed
Enter(d) == [d EXCEPT !.depth = @ + 1, !.calls = @ + 1]

\* the call returns to a caller that runs at depth
Return(d, depth) == [d EXCEPT !.depth = depth]

\* the call cannot be made: the operation is unwinding or the stack is full
Unwinds(d) == d.overflow \/ d.depth >= RecursionLimit

\* calculate_scores whose max_score is the number of targets, without the
\* factor of the highest importance score
TargetCategory_calculate_scores_countmax(d, c) ==
    LET e == Enter(d)
        targets == ActiveTargets(e, c)
        achieved_targets == {t \in targets : e.tgts[t].is_achieved}
        score == SumF([t \in achieved_targets |-> e.imps[e.tgts[t].importance].score],
                      achieved_targets)
        saved == [e EXCEPT !.cats[c].score = score,
                           !.cats[c].max_score = Cardinality(targets)]
    IN  Return(TargetCategory_post_save(saved, c, TRUE), d.depth)

\* TargetCategory.calculate_scores
TargetCategory_calculate_scores(d, c) ==
    IF Unwinds(d) THEN [d EXCEPT !.overflow = TRUE]
    ELSE
    LET e == Enter(d)
        targets == ActiveTargets(e, c)
        target_count == Cardinality(targets)
        max_importance_score == get_max_score(e)
        achieved_targets == {t \in targets : e.tgts[t].is_achieved}
        score == SumF([t \in achieved_targets |-> e.imps[e.tgts[t].importance].score],
                      achieved_targets)
        saved == [e EXCEPT !.cats[c].score = score,
                           !.cats[c].max_score = target_count * max_importance_score]
    IN  Return(TargetCategory_post_save(saved, c, TRUE), d.depth)

\* the loop "for category in categories: category.calculate_scores()"
CalculateEach(d, S) ==
    IF S = {} THEN d
    ELSE LET c == MinOf(S)
         IN  CalculateEach(TargetCategory_calculate_scores(d, c), S \ {c})

\* ScoreDay.calculate_scores without its loop over the categories
ScoreDay_calculate_scores_sumonly(d, day) ==
    IF Unwinds(d) THEN [d EXCEPT !.overflow = TRUE]
    ELSE
    LET e == Enter(d)
        rows == ActiveCategories(e, day)
        total_score == SqlSum([c \in rows |-> e.cats[c].score], rows)
        total_max_score == SqlSum([c \in rows |-> e.cats[c].max_score], rows)
    IN  Return([e EXCEPT !.days[day].score = OrZero(total_score),
                         !.days[day].max_score = OrZero(total_max_score)], d.depth)

\* ScoreDay.calculate_scores (ScoreDay has no post_save receiver)
ScoreDay_calculate_scores(d, day) ==
    IF Unwinds(d) THEN [d EXCEPT !.overflow = TRUE]
    ELSE
    LET e == Enter(d)
        categories == ActiveCategories(e, day)
        d1 == CalculateEach(e, categories)
        rows == ActiveCategories(d1, day)
        total_score == SqlSum([c \in rows |-> d1.cats[c].score], rows)
        total_max_score == SqlSum([c \in rows |-> d1.cats[c].max_score], rows)
    IN  IF d1.overflow THEN Return(d1, d.depth)
        ELSE Return([d1 EXCEPT !.days[day].score = OrZero(total_score),
                               !.days[day].max_score = OrZero(total_max_score)], d.depth)


\* the loop "for score_day in ScoreDay.objects.filter(is_deleted=False)"
RECURSIVE CalculateEachDay(_, _)
CalculateEachDay(d, S) ==
    IF S = {} THEN d
    ELSE LET day == MinOf(S)
         IN  CalculateEachDay(ScoreDay_calculate_scores(d, day), S \ {day})

\* signals.target_post_save_handler
target_post_save_handler(d, t) ==
    IF ~d.tgts[t].is_deleted
    THEN LET c == d.tgts[t].category
             d1 == TargetCategory_calculate_scores(d, c)
         IN  ScoreDay_calculate_scores(d1, d1.cats[c].day)
    ELSE d

\* signals.target_post_delete_handler; c is instance.category_id
target_post_delete_handler(d, c) ==
    IF c # 0 /\ d.cats[c].exists
    THEN LET d1 == TargetCategory_calculate_scores(d, c)
         IN  ScoreDay_calculate_scores(d1, d1.cats[c].day)
    ELSE d

\* signals.importance_post_save_handler
importance_post_save_handler(d) ==
    CalculateEachDay(d, {day \in DayIds : d.days[day].exists /\ ~d.days[day].is_deleted})

\* signals.importance_post_delete_handler
importance_post_delete_handler(d) ==
    CalculateEachDay(d, {day \in DayIds : d.days[day].exists /\ ~d.days[day].is_deleted})

\* signals.target_category_post_delete_handler; day is instance.day_id
target_category_post_delete_handler(d, day) ==
    IF day # 0 /\ d.days[day].exists THEN ScoreDay_calculate_scores(d, day) ELSE d

\* post_save / post_delete dispatch
Target_post_save(d, t) ==
    IF receivers THEN target_post_save_handler(d, t) ELSE d
Target_post_delete(d, c) ==
    IF receivers THEN target_post_delete_handler(d, c) ELSE d
Importance_post_save(d) ==
    IF receivers THEN importance_post_save_handler(d) ELSE d
Importance_post_delete(d) ==
    IF receivers THEN importance_post_delete_handler(d) ELSE d
TargetCategory_post_delete(d, day) ==
    IF receivers THEN target_category_post_delete_handler(d, day) ELSE d

FreeCategoryIds(d) == {c \in CatIds : ~d.cats[c].exists}
FreeTargetIds(d) == {t \in TargetIds : ~d.tgts[t].exists}

\* Target.objects.create(name=name, category=c, importance=i, is_achieved=a)
Target_create(d, name, c, i, a) ==
    LET t == MinOf(FreeTargetIds(d))
        row == [exists |-> TRUE, name |-> name, category |-> c, importance |-> i,
                is_achieved |-> a, is_deleted |-> FALSE]
    IN  Target_post_save([d EXCEPT !.tgts[t] = row], t)

\* TargetCategory.objects.create(day=day, name=name, description=description,
\*                               score=None, max_score=None)
TargetCategory_create(d, day, name, description) ==
    LET c == MinOf(FreeCategoryIds(d))
        row == [exists |-> TRUE, day |-> day, name |-> name, description |-> description,
                is_deleted |-> FALSE, score |-> Null, max_score |-> Null]
    IN  TargetCategory_post_save([d EXCEPT !.cats[c] = row], c, FALSE)

\* the on_delete=CASCADE collector: the rows of the targets T are deleted,
\* then post_delete is sent for each of them
RECURSIVE SendTargetPostDelete(_, _, _)
SendTargetPostDelete(d, T, catOf) ==
    IF T = {} THEN d
    ELSE LET t == MinOf(T)
         IN  SendTargetPostDelete(Target_post_delete(d, catOf[t]), T \ {t}, catOf)

DeleteTargets(d, T) ==
    LET catOf == [t \in T |-> d.tgts[t].category]
        removed == [d EXCEPT !.tgts = [t \in TargetIds |->
                                         IF t \in T THEN NoTarget ELSE d.tgts[t]]]
    IN  SendTargetPostDelete(removed, T, catOf)


\* Target.Meta.ordering = ['-importance__score', 'name'] (ties in row order)
TargetBefore(d, t, u) ==
    LET st == d.imps[d.tgts[t].importance].score
        su == d.imps[d.tgts[u].importance].score
    IN  \/ st > su
        \/ st = su /\ d.tgts[t].name < d.tgts[u].name
        \/ st = su /\ d.tgts[t].name = d.tgts[u].name /\ t <= u

FirstTarget(d, T) == CHOOSE t \in T : \A u \in T : TargetBefore(d, t, u)

\* TargetCategory.Meta.ordering = ['name'] (ties in row order)
CategoryBefore(d, c, e) ==
    \/ d.cats[c].name < d.cats[e].name
    \/ d.cats[c].name = d.cats[e].name /\ c <= e

FirstCategory(d, S) == CHOOSE c \in S : \A e \in S : CategoryBefore(d, c, e)

\* CopyTargets that keeps the achievement status of the source target
RECURSIVE CopyTargets_keepachieved(_, _, _, _)
CopyTargets_keepachieved(d, src, new_category, T) ==
    IF T = {} THEN d
    ELSE LET prev_target == FirstTarget(src, T)
             d1 == Target_create(d, src.tgts[prev_target].name, new_category,
                                 src.tgts[prev_target].importance,
                                 src.tgts[prev_target].is_achieved)
         IN  CopyTargets_keepachieved(d1, src, new_category, T \ {prev_target})

\* ScoreDay.copy_previous_day_categories: the inner loop over prev_targets
RECURSIVE CopyTargets(_, _, _, _)
CopyTargets(d, src, new_category, T) ==
    IF T = {} THEN d
    ELSE LET prev_target == FirstTarget(src, T)
             d1 == Target_create(d, src.tgts[prev_target].name, new_category,
                                 src.tgts[prev_target].importance, FALSE)
         IN  CopyTargets(d1, src, new_category, T \ {prev_target})

\* ScoreDay.copy_previous_day_categories: the loop over previous_categories
RECURSIVE CopyCategories(_, _, _, _)
CopyCategories(d, src, day, S) ==
    IF S = {} THEN d
    ELSE LET prev_category == FirstCategory(src, S)
             new_category == MinOf(FreeCategoryIds(d))
             d1 == TargetCategory_create(d, day, src.cats[prev_category].name,
                                         src.cats[prev_category].description)
             d2 == CopyTargets(d1, src, new_category, ActiveTargets(src, prev_category))
         IN  CopyCategories(d2, src, day, S \ {prev_category})

\* PreviousDays without the is_deleted=False filter
PreviousDays_unfiltered(d, day) ==
    {p \in DayIds : p < day /\ d.days[p].exists}

\* ScoreDay.objects.filter(day__lt=self.day, is_deleted=False).order_by('-day')
PreviousDays(d, day) ==
    {p \in DayIds : p < day /\ d.days[p].exists /\ ~d.days[p].is_deleted}

\* ScoreDay.copy_previous_day_categories
copy_previous_day_categories(d, day) ==
    IF PreviousDays(d, day) = {} THEN d
    ELSE LET previous_day == MaxOf(PreviousDays(d, day))
         IN  CopyCategories(d, d, day, ActiveCategories(d, previous_day))

\* rows that carry-forward for the date day would create
CopiedCategories(d, day) ==
    IF PreviousDays(d, day) = {} THEN {}
    ELSE ActiveCategories(d, MaxOf(PreviousDays(d, day)))
CopiedTargets(d, day) ==
    UNION {ActiveTargets(d, c) : c \in CopiedCategories(d, day)}

\* ---------------------------------------------------------------- actions
Commit(d, l) ==
    /\ nops < MaxOps
    /\ nops' = nops + 1
    /\ imps' = d.imps
    /\ days' = d.days
    /\ cats' = d.cats
    /\ tgts' = d.tgts
    /\ last' = [l EXCEPT !.calls = d.calls, !.done = ~d.overflow]
    /\ UNCHANGED <<today, receivers, procs>>

\* the calendar date moves on
NextDay ==
    /\ today < MaxDays
    /\ nops < MaxOps
    /\ nops' = nops + 1
    /\ today' = today + 1
    /\ last' = [NoOp EXCEPT !.op = "NextDay"]
    /\ UNCHANGED <<imps, days, cats, tgts, receivers, procs>>

\* get_or_create_today that carries forward whether or not the row was created
get_or_create_today_recopy(d, day) ==
    LET row == [NoScoreDay EXCEPT !.exists = TRUE]
        d1 == IF d.days[day].exists THEN d ELSE [d EXCEPT !.days[day] = row]
        d2 == copy_previous_day_categories(d1, day)
    IN  IF /\ Cardinality(FreeCategoryIds(d)) >= Cardinality(CopiedCategories(d, day))
           /\ Cardinality(FreeTargetIds(d)) >= Cardinality(CopiedTargets(d, day))
        THEN ScoreDay_calculate_scores(d2, day)
        ELSE d

\* ScoreDay.get_or_create_today; cls.objects is the default manager, so
\* get_or_create(day=today) finds the row of the date whatever its is_deleted
get_or_create_today(d, day) ==
    LET row == [NoScoreDay EXCEPT !.exists = TRUE]
    IN  IF d.days[day].exists
        THEN d
        ELSE LET d1 == [d EXCEPT !.days[day] = row]
                 d2 == copy_previous_day_categories(d1, day)
             IN  ScoreDay_calculate_scores(d2, day)

\* the free rows suffice for the copies that get_or_create_today makes
CanCreateToday ==
    \/ days[today].exists
    \/ /\ Cardinality(FreeCategoryIds(DB)) >= Cardinality(CopiedCategories(DB, today))
       /\ Cardinality(FreeTargetIds(DB)) >= Cardinality(CopiedTargets(DB, today))

\* a call of ScoreDay.get_or_create_today; ok records "created"
GetOrCreateDay ==
    /\ days[today].exists
          \/ /\ Cardinality(FreeCategoryIds(DB)) >= Cardinality(CopiedCategories(DB, today))
             /\ Cardinality(FreeTargetIds(DB)) >= Cardinality(CopiedTargets(DB, today))
    /\ Commit(get_or_create_today(DB, today),
              [NoOp EXCEPT !.op = "GetOrCreateDay", !.day = today,
                           !.ok = ~days[today].exists])

\* ScoreDay.objects.create(day=day)
CreateDay(day) ==
    /\ ~days[day].exists
    /\ LET row == [NoScoreDay EXCEPT !.exists = TRUE]
       IN  Commit([DB EXCEPT !.days[day] = row], [NoOp EXCEPT !.op = "CreateDay", !.day = day])

\* score_day.is_deleted = True; score_day.save() (ScoreDay has no receiver)
SoftDeleteDay(day) ==
    /\ days[day].exists
    /\ ~days[day].is_deleted
    /\ Commit([DB EXCEPT !.days[day].is_deleted = TRUE],
              [NoOp EXCEPT !.op = "SoftDeleteDay", !.day = day])

\* a table without the unique_together constraint
NameTaken_unenforced(d, day, c, name) == FALSE

\* unique_together = ['day', 'name']: a row of the day other than c holds
\* exactly this name (soft-deleted rows count); c is 0 for a new row
NameTaken(d, day, c, name) ==
    \E e \in CatIds \ {c} :
        d.cats[e].exists /\ d.cats[e].day = day /\ d.cats[e].name = name

\* a clean_name that does not look for existing categories
TargetCategoryForm_clean_name_unchecked(d, day, c, name) == TRUE

\* TargetCategoryForm.clean_name; c is the pk of the instance, 0 for a new one
TargetCategoryForm_clean_name(d, day, c, name) ==
    ~\E e \in CatIds \ {c} :
        /\ d.cats[e].exists
        /\ d.cats[e].day = day
        /\ ~d.cats[e].is_deleted
        /\ Fold(d.cats[e].name, MaxTexts) = Fold(name, MaxTexts)

\* the least name that the form and the unique constraint accept for the day
FreshNames(d, day) ==
    LET free == {n \in Texts : /\ TargetCategoryForm_clean_name(d, day, 0, n)
                               /\ ~NameTaken(d, day, 0, n)}
    IN  {n \in free : n = MinOf(free)}

\* TargetCategoryCreateView.form_valid / TargetCategory.objects.create: a
\* category of an existing day; a name that the form refuses or that a row
\* of the day already holds (IntegrityError) writes nothing
CreateCategory(day, name, description) ==
    /\ days[day].exists
    /\ FreeCategoryIds(DB) # {}
    /\ IF ~TargetCategoryForm_clean_name(DB, day, 0, name) \/ NameTaken(DB, day, 0, name)
       THEN Commit(DB, [NoOp EXCEPT !.op = "CreateCategory", !.day = day, !.ok = FALSE])
       ELSE Commit(TargetCategory_create(DB, day, name, description),
                   [NoOp EXCEPT !.op = "CreateCategory", !.day = day,
                                !.cat = MinOf(FreeCategoryIds(DB))])

\* TargetCategory.update_from_form / TargetCategoryUpdateView: form.save() is
\* a plain save() of the category with the name of the form
RenameCategory(c, name) ==
    /\ cats[c].exists
    /\ LET day == cats[c].day
           l == [NoOp EXCEPT !.op = "RenameCategory", !.cat = c, !.day = day]
       IN  IF ~TargetCategoryForm_clean_name(DB, day, c, name) \/ NameTaken(DB, day, c, name)
           THEN Commit(DB, [l EXCEPT !.ok = FALSE])
           ELSE Commit(TargetCategory_post_save([DB EXCEPT !.cats[c].name = name], c, FALSE), l)

\* category.is_deleted = True; category.save()
SaveCategoryDeleted(c) ==
    /\ cats[c].exists
    /\ ~cats[c].is_deleted
    /\ LET d1 == [DB EXCEPT !.cats[c].is_deleted = TRUE]
       IN  Commit(TargetCategory_post_save(d1, c, FALSE),
                  [NoOp EXCEPT !.op = "SaveCategoryDeleted", !.cat = c, !.day = cats[c].day])

\* soft_delete_with_targets without its final self.day.calculate_scores()
soft_delete_with_targets_norecalc(d, c) ==
    LET d1 == [d EXCEPT !.cats[c].is_deleted = TRUE]
        d2 == TargetCategory_post_save(d1, c, FALSE)
    IN  [d2 EXCEPT !.tgts = [t \in TargetIds |->
                    IF t \in ActiveTargets(d2, c)
                    THEN [d2.tgts[t] EXCEPT !.is_deleted = TRUE]
                    ELSE d2.tgts[t]]]

\* TargetCategory.soft_delete_with_targets
soft_delete_with_targets(d, c) ==
    LET d1 == [d EXCEPT !.cats[c].is_deleted = TRUE]
        d2 == TargetCategory_post_save(d1, c, FALSE)
        d3 == [d2 EXCEPT !.tgts = [t \in TargetIds |->
                    IF t \in ActiveTargets(d2, c)
                    THEN [d2.tgts[t] EXCEPT !.is_deleted = TRUE]
                    ELSE d2.tgts[t]]]
    IN  ScoreDay_calculate_scores(d3, d3.cats[c].day)

SoftDeleteCategory(c) ==
    /\ cats[c].exists
    /\ ~cats[c].is_deleted
    /\ Commit(soft_delete_with_targets(DB, c),
              [NoOp EXCEPT !.op = "SoftDeleteCategory", !.cat = c, !.day = cats[c].day])

\* category.delete(): the targets go first (on_delete=CASCADE), then the row
HardDeleteCategory(c) ==
    /\ cats[c].exists
    /\ LET T == {t \in TargetIds : tgts[t].exists /\ tgts[t].category = c}
           d1 == DeleteTargets(DB, T)
           d2 == [d1 EXCEPT !.cats[c] = NoTargetCategory]
       IN  Commit(TargetCategory_post_delete(d2, cats[c].day),
                  [NoOp EXCEPT !.op = "HardDeleteCategory", !.cat = c, !.day = cats[c].day])

\* Target.create_from_form / Target.objects.create
CreateTarget(c, name, i, a) ==
    /\ cats[c].exists
    /\ imps[i].exists
    /\ FreeTargetIds(DB) # {}
    /\ Commit(Target_create(DB, name, c, i, a),
              [NoOp EXCEPT !.op = "CreateTarget", !.tgt = MinOf(FreeTargetIds(DB)),
                           !.cat = c, !.day = cats[c].day, !.imp = i])

\* target.is_achieved = a; target.save()
UpdateTarget(t, a) ==
    /\ tgts[t].exists
    /\ ~tgts[t].is_deleted
    /\ tgts[t].is_achieved # a
    /\ Commit(Target_post_save([DB EXCEPT !.tgts[t].is_achieved = a], t),
              [NoOp EXCEPT !.op = "UpdateTarget", !.tgt = t, !.cat = tgts[t].category,
                           !.day = cats[tgts[t].category].day])

\* target.is_deleted = True; target.save()
SoftDeleteTarget(t) ==
    /\ tgts[t].exists
    /\ ~tgts[t].is_deleted
    /\ Commit(Target_post_save([DB EXCEPT !.tgts[t].is_deleted = TRUE], t),
              [NoOp EXCEPT !.op = "SoftDeleteTarget", !.tgt = t, !.cat = tgts[t].category,
                           !.day = cats[tgts[t].category].day])

\* target.delete()
HardDeleteTarget(t) ==
    /\ tgts[t].exists
    /\ Commit(DeleteTargets(DB, {t}),
              [NoOp EXCEPT !.op = "HardDeleteTarget", !.tgt = t, !.cat = tgts[t].category,
                           !.day = cats[tgts[t].category].day])

\* toggle_achievement without the recompute of the day
toggle_achievement_noday(d, t) ==
    LET d1 == [d EXCEPT !.tgts[t].is_achieved = ~d.tgts[t].is_achieved]
        d2 == Target_post_save(d1, t)
    IN  TargetCategory_calculate_scores(d2, d2.tgts[t].category)

\* toggle_achievement that recomputes every non-deleted day
toggle_achievement_alldays(d, t) ==
    LET d1 == [d EXCEPT !.tgts[t].is_achieved = ~d.tgts[t].is_achieved]
        d2 == Target_post_save(d1, t)
        c == d2.tgts[t].category
        d3 == TargetCategory_calculate_scores(d2, c)
    IN  CalculateEachDay(d3, {day \in DayIds : d3.days[day].exists
                                               /\ ~d3.days[day].is_deleted})

\* Target.toggle_achievement
toggle_achievement(d, t) ==
    LET d1 == [d EXCEPT !.tgts[t].is_achieved = ~d.tgts[t].is_achieved]
        d2 == Target_post_save(d1, t)
        c == d2.tgts[t].category
        d3 == TargetCategory_calculate_scores(d2, c)
    IN  ScoreDay_calculate_scores(d3, d3.cats[c].day)

\* TargetAchievementView.post (the target is looked up with is_deleted=False)
ToggleAchievement(t) ==
    /\ tgts[t].exists
    /\ ~tgts[t].is_deleted
    /\ Commit(toggle_achievement(DB, t),
              [NoOp EXCEPT !.op = "ToggleAchievement", !.tgt = t, !.cat = tgts[t].category,
                           !.day = cats[tgts[t].category].day,
                           !.twice = (last.op = "ToggleAchievement" /\ last.tgt = t)])

\* category.calculate_scores() called directly
RecalculateCategory(c) ==
    /\ cats[c].exists
    /\ Commit(TargetCategory_calculate_scores(DB, c),
              [NoOp EXCEPT !.op = "RecalculateCategory", !.cat = c, !.day = cats[c].day,
                           !.again = (last.op = "RecalculateCategory" /\ last.cat = c)])

\* score_day.calculate_scores() called directly
RecalculateDay(day) ==
    /\ days[day].exists
    /\ LET d1 == ScoreDay_calculate_scores(DB, day)
       IN  Commit(d1,
              [NoOp EXCEPT !.op = "RecalculateDay", !.day = day,
                           !.again = (last.op = "RecalculateDay" /\ last.day = day),
                           !.stale = \E c \in ActiveCategories(DB, day) :
                                         d1.cats[c] # cats[c]])

\* ImportanceForm.clean_label; i is the pk of the instance, 0 for a new one
ImportanceForm_clean_label(d, i, label) ==
    /\ label # 0
    /\ ~\E j \in ImpIds \ {i} : d.imps[j].exists
                                /\ Fold(d.imps[j].label, MaxLabels) = Fold(label, MaxLabels)

\* ImportanceForm.clean_score
ImportanceForm_clean_score(score) == score >= 1

\* the least label that matches the label of no importance level
FreshLabels(d) ==
    LET free == {l \in Labels \ {0} : ImportanceForm_clean_label(d, 0, l)}
    IN  {l \in free : l = MinOf(free)}

\* Importance.create_from_form / ImportanceManagementView._handle_create
CreateImportance(i, label, s) ==
    /\ ~imps[i].exists
    /\ i = MinOf({j \in ImpIds : ~imps[j].exists})
    /\ LET l == [NoOp EXCEPT !.op = "CreateImportance", !.imp = i, !.m = get_max_score(DB)]
       IN  IF ImportanceForm_clean_label(DB, 0, label) /\ ImportanceForm_clean_score(s)
           THEN Commit(Importance_post_save(
                           [DB EXCEPT !.imps[i] = [exists |-> TRUE, label |-> label,
                                                   score |-> s]]), l)
           ELSE Commit(DB, [l EXCEPT !.ok = FALSE])

\* Importance.update_from_form / ImportanceManagementView._handle_update
UpdateImportance(i, label, s) ==
    /\ imps[i].exists
    /\ LET l == [NoOp EXCEPT !.op = "UpdateImportance", !.imp = i, !.m = get_max_score(DB)]
       IN  IF ImportanceForm_clean_label(DB, i, label) /\ ImportanceForm_clean_score(s)
           THEN Commit(Importance_post_save(
                           [DB EXCEPT !.imps[i].label = label, !.imps[i].score = s]), l)
           ELSE Commit(DB, [l EXCEPT !.ok = FALSE])

\* Importance.can_be_deleted: the number of non-deleted targets that use it
targets_count(d, i) ==
    Cardinality({t \in TargetIds :
                    d.tgts[t].exists /\ d.tgts[t].importance = i /\ ~d.tgts[t].is_deleted})

\* can_be_deleted without the guard
can_be_deleted_unguarded(d, i) == TRUE

can_be_deleted(d, i) == ~(targets_count(d, i) > 0)

\* importance.delete() with a reference that does not cascade: the row of the
\* level goes and the targets stay
Importance_delete_nocascade(d, i) ==
    Importance_post_delete([d EXCEPT !.imps[i] = NoImportance])

\* importance.delete(): the targets that reference it go first
\* (on_delete=CASCADE), then the row
Importance_delete(d, i) ==
    LET T == {t \in TargetIds : d.tgts[t].exists /\ d.tgts[t].importance = i}
        d1 == DeleteTargets(d, T)
        d2 == [d1 EXCEPT !.imps[i] = NoImportance]
    IN  Importance_post_delete(d2)

\* Importance.delete_with_message / ImportanceManagementView._handle_delete;
\* value is the number of rows that importance.delete() reports as deleted
DeleteImportance(i) ==
    /\ imps[i].exists
    /\ IF ~can_be_deleted(DB, i)
       THEN Commit(DB, [NoOp EXCEPT !.op = "DeleteImportance", !.imp = i, !.ok = FALSE,
                                    !.count = targets_count(DB, i)])
       ELSE Commit(Importance_delete(DB, i),
                   [NoOp EXCEPT !.op = "DeleteImportance", !.imp = i,
                                !.m = get_max_score(DB),
                                !.value = 1 + Cardinality({t \in TargetIds :
                                    tgts[t].exists /\ tgts[t].importance = i})])

\* ------------------------------------------------------ sleep and wake
\* timezone.make_aware(datetime.combine(day_date, time)): a timestamp is the
\* number of the date times the length of a day plus the time of day
Combine(day, time) == day * (MaxTime + 1) + time

\* timedelta(days=1)
OneDay == MaxTime + 1

\* SleepWakeTimeForm.clean: wake_time is required, sleep_time may be empty
SleepWakeTimeForm_clean(wake_time, sleep_time) ==
    ~(wake_time # Null /\ sleep_time # Null /\ sleep_time <= wake_time)

\* SleepWakeTimeForm.save
SleepWakeTimeForm_save(d, day, wake_time, sleep_time) ==
    LET d1 == [d EXCEPT !.days[day].wake_time = Combine(day, wake_time)]
        sleep_datetime == Combine(day, sleep_time)
    IN  IF sleep_time # Null
        THEN [d1 EXCEPT !.days[day].sleep_time =
                 IF sleep_time < wake_time THEN sleep_datetime + OneDay
                 ELSE sleep_datetime]
        ELSE [d1 EXCEPT !.days[day].sleep_time = Null]

\* DashboardView.post / DayView.post: the form is saved when is_valid()
SetSleepWakeTimes(day, wake_time, sleep_time) ==
    /\ days[day].exists
    /\ ~days[day].is_deleted
    /\ LET l == [NoOp EXCEPT !.op = "SetSleepWakeTimes", !.day = day,
                             !.wake = wake_time, !.sleep = sleep_time]
       IN  IF SleepWakeTimeForm_clean(wake_time, sleep_time)
           THEN Commit(SleepWakeTimeForm_save(DB, day, wake_time, sleep_time), l)
           ELSE Commit(DB, [l EXCEPT !.ok = FALSE])

\* ------------------------------------------------- requests step by step
\* The statements of Target.toggle_achievement and
\* TargetCategory.soft_delete_with_targets, one database statement per step.
\* No statement of the application opens a transaction (there is no
\* transaction.atomic and DATABASES sets no ATOMIC_REQUESTS), so every
\* statement commits on its own and the steps of two requests interleave.

\* the tables as a request found them when it started
Tables == [days |-> days, cats |-> cats, tgts |-> tgts]

NoTables ==
    [days |-> [day \in DayIds |-> NoScoreDay],
     cats |-> [c \in CatIds |-> NoTargetCategory],
     tgts |-> [t \in TargetIds |-> NoTarget]]

\* a process that runs no request; row and crow are the model instances the
\* request holds in memory (drow the ScoreDay instance of a sleep/wake form,
\* wake and sleep the times the form carries), cur the category whose
\* calculate_scores runs,
\* ret its caller, todo the categories the loop of the day has not visited
Idle ==
    [op |-> "none", pc |-> "idle", tgt |-> 0, cat |-> 0, day |-> 0,
     row |-> NoTarget, crow |-> NoTargetCategory, cur |-> 0, ret |-> "none",
     score |-> 0, max_score |-> 0, todo |-> {}, before |-> NoTables,
     drow |-> NoScoreDay, wake |-> Null, sleep |-> Null]

\* a step of process p that writes the tables of d and moves p to q
Step(p, d, q) ==
    /\ imps' = d.imps
    /\ days' = d.days
    /\ cats' = d.cats
    /\ tgts' = d.tgts
    /\ procs' = [procs EXCEPT ![p] = q]
    /\ UNCHANGED <<today, last, nops, receivers>>

\* the requests are numbered in the order in which they start
Starts(p) == \A q \in Procs : q < p => procs[q].pc # "idle"

\* TargetAchievementView.post: get_object_or_404(Target, pk=pk,
\* category__day=current_day, is_deleted=False)
StartToggle(p, t) ==
    /\ procs[p].pc = "idle"
    /\ Starts(p)
    /\ tgts[t].exists
    /\ ~tgts[t].is_deleted
    /\ cats[tgts[t].category].day = today
    /\ Step(p, DB, [Idle EXCEPT !.op = "toggle", !.pc = "save", !.tgt = t,
                                !.row = tgts[t], !.cat = tgts[t].category,
                                !.day = cats[tgts[t].category].day,
                                !.before = Tables])

\* a toggle that negates the stored value at the time of the save instead
\* of the value the request read
ToggleSave_reread(p) ==
    /\ procs[p].pc = "save"
    /\ LET t == procs[p].tgt
           row == [procs[p].row EXCEPT !.is_achieved = ~tgts[t].is_achieved]
           d1 == Target_post_save([DB EXCEPT !.tgts[t] = row], t)
       IN  Step(p, d1, [procs[p] EXCEPT !.row = row, !.pc = "cat_read",
                                       !.cur = procs[p].cat, !.ret = "toggle"])

\* Target.toggle_achievement: self.is_achieved = not self.is_achieved;
\* self.save() writes every column of the instance
ToggleSave(p) ==
    /\ procs[p].pc = "save"
    /\ LET t == procs[p].tgt
           row == [procs[p].row EXCEPT !.is_achieved = ~procs[p].row.is_achieved]
           d1 == Target_post_save([DB EXCEPT !.tgts[t] = row], t)
       IN  Step(p, d1, [procs[p] EXCEPT !.row = row, !.pc = "cat_read",
                                       !.cur = procs[p].cat, !.ret = "toggle"])

\* TargetCategory.calculate_scores: the queries (count, maximum, achieved)
CategoryRead(p) ==
    /\ procs[p].pc = "cat_read"
    /\ LET c == procs[p].cur
           targets == ActiveTargets(DB, c)
           achieved_targets == {t \in targets : tgts[t].is_achieved}
       IN  Step(p, DB, [procs[p] EXCEPT
                 !.pc = "cat_write",
                 !.max_score = Cardinality(targets) * get_max_score(DB),
                 !.score = SumF([t \in achieved_targets |-> imps[tgts[t].importance].score],
                                achieved_targets)])

\* TargetCategory.calculate_scores: self.save(update_fields=[...]), then the
\* return to toggle_achievement or to the loop of ScoreDay.calculate_scores
CategoryWrite(p) ==
    /\ procs[p].pc = "cat_write"
    /\ LET c == procs[p].cur
           d1 == [DB EXCEPT !.cats[c].score = procs[p].score,
                            !.cats[c].max_score = procs[p].max_score]
           d2 == TargetCategory_post_save(d1, c, TRUE)
           todo == procs[p].todo \ {c}
       IN  IF procs[p].ret = "toggle"
           THEN Step(p, d2, [procs[p] EXCEPT !.pc = "day_list", !.cur = 0,
                                            !.score = 0, !.max_score = 0])
           ELSE Step(p, d2, [procs[p] EXCEPT
                     !.todo = todo, !.score = 0, !.max_score = 0,
                     !.pc = IF todo = {} THEN "day_sum" ELSE "cat_read",
                     !.cur = IF todo = {} THEN 0 ELSE FirstCategory(DB, todo)])

\* ScoreDay.calculate_scores: the loop evaluates
\* self.categories.filter(is_deleted=False)
DayList(p) ==
    /\ procs[p].pc = "day_list"
    /\ LET todo == ActiveCategories(DB, procs[p].day)
       IN  Step(p, DB, [procs[p] EXCEPT
                 !.todo = todo, !.ret = "day",
                 !.pc = IF todo = {} THEN "day_sum" ELSE "cat_read",
                 !.cur = IF todo = {} THEN 0 ELSE FirstCategory(DB, todo)])

\* ScoreDay.calculate_scores: categories.aggregate(Sum('score'), Sum('max_score'))
DaySum(p) ==
    /\ procs[p].pc = "day_sum"
    /\ LET rows == ActiveCategories(DB, procs[p].day)
       IN  Step(p, DB, [procs[p] EXCEPT
                 !.pc = "day_write",
                 !.score = OrZero(SqlSum([c \in rows |-> cats[c].score], rows)),
                 !.max_score = OrZero(SqlSum([c \in rows |-> cats[c].max_score], rows))])

\* ScoreDay.calculate_scores: self.save(update_fields=[...]); the request ends
DayWrite(p) ==
    /\ procs[p].pc = "day_write"
    /\ Step(p, [DB EXCEPT !.days[procs[p].day].score = procs[p].score,
                          !.days[procs[p].day].max_score = procs[p].max_score],
            [procs[p] EXCEPT !.pc = "done", !.score = 0, !.max_score = 0,
                             !.ret = "none"])

\* TargetCategory.soft_delete_with_targets is called on a category instance
\* that was loaded as a non-deleted row
StartSoftDelete(p, c) ==
    /\ procs[p].pc = "idle"
    /\ Starts(p)
    /\ cats[c].exists
    /\ ~cats[c].is_deleted
    /\ Step(p, DB, [Idle EXCEPT !.op = "soft_delete", !.pc = "sd_save", !.cat = c,
                                !.crow = cats[c], !.day = cats[c].day,
                                !.before = Tables])

\* TargetCategory.soft_delete_with_targets: self.is_deleted = True;
\* self.save() writes every column of the instance
SoftDeleteSave(p) ==
    /\ procs[p].pc = "sd_save"
    /\ LET c == procs[p].cat
           crow == [procs[p].crow EXCEPT !.is_deleted = TRUE]
           d1 == TargetCategory_post_save([DB EXCEPT !.cats[c] = crow], c, FALSE)
       IN  Step(p, d1, [procs[p] EXCEPT !.crow = crow, !.pc = "sd_update"])

\* TargetCategory.soft_delete_with_targets:
\* self.targets.filter(is_deleted=False).update(is_deleted=True)
SoftDeleteTargets(p) ==
    /\ procs[p].pc = "sd_update"
    /\ LET c == procs[p].cat
           d1 == [DB EXCEPT !.tgts = [t \in TargetIds |->
                      IF t \in ActiveTargets(DB, c)
                      THEN [tgts[t] EXCEPT !.is_deleted = TRUE]
                      ELSE tgts[t]]]
       IN  Step(p, d1, [procs[p] EXCEPT !.pc = "day_list"])

\* DashboardView.post: current_day = ScoreDay.get_or_create_today() loads the
\* row of the day; the form is validated in memory, an invalid form ends the
\* request
StartSleepWake(p, wake_time, sleep_time) ==
    /\ procs[p].pc = "idle"
    /\ Starts(p)
    /\ CanCreateToday
    /\ LET d0 == get_or_create_today(DB, today)
       IN  Step(p, d0, [Idle EXCEPT !.op = "sleep_wake", !.day = today,
                           !.pc = IF SleepWakeTimeForm_clean(wake_time, sleep_time)
                                  THEN "sw_save" ELSE "done",
                           !.drow = d0.days[today],
                           !.wake = wake_time, !.sleep = sleep_time,
                           !.before = Tables])

\* SleepWakeTimeForm.save: the times are set on the instance that was loaded
\* and self.instance.save() writes every column of it
SleepWakeSave(p) ==
    /\ procs[p].pc = "sw_save"
    /\ LET day == procs[p].day
           loaded == [DB EXCEPT !.days[day] = procs[p].drow]
           d1 == SleepWakeTimeForm_save(loaded, day, procs[p].wake, procs[p].sleep)
       IN  Step(p, d1, [procs[p] EXCEPT !.pc = "done", !.drow = NoScoreDay])

\* a statement of the request raises (TargetAchievementView.post catches
\* Exception and answers with an error); what was written stays written
Fail(p) ==
    /\ procs[p].pc \notin {"idle", "done", "failed"}
    /\ Step(p, DB, [procs[p] EXCEPT !.pc = "failed", !.score = 0, !.max_score = 0,
                                    !.cur = 0, !.todo = {}, !.ret = "none"])

Init ==
    /\ imps = [i \in ImpIds |-> NoImportance]
    /\ days = [day \in DayIds |-> NoScoreDay]
    /\ cats = [c \in CatIds |-> NoTargetCategory]
    /\ tgts = [t \in TargetIds |-> NoTarget]
    /\ today = 1
    /\ last = NoOp
    /\ nops = 0
    /\ receivers = SignalsConnected
    /\ procs = [p \in Procs |-> Idle]

Next ==
    \/ NextDay
    \/ GetOrCreateDay
    \/ \E day \in DayIds : \E name \in FreshNames(DB, day) : CreateCategory(day, name, 1)
    \/ \E c \in CatIds : RenameCategory(c, cats[c].name)
    \/ \E c \in CatIds : SaveCategoryDeleted(c)
    \/ \E c \in CatIds : SoftDeleteCategory(c)
    \/ \E c \in CatIds : HardDeleteCategory(c)
    \/ \E c \in CatIds, i \in ImpIds, a \in BOOLEAN : CreateTarget(c, 1, i, a)
    \/ \E t \in TargetIds, a \in BOOLEAN : UpdateTarget(t, a)
    \/ \E t \in TargetIds : SoftDeleteTarget(t)
    \/ \E t \in TargetIds : HardDeleteTarget(t)
    \/ \E t \in TargetIds : ToggleAchievement(t)
    \/ \E label \in FreshLabels(DB) : \E i \in ImpIds, s \in ImpScores :
          CreateImportance(i, label, s)
    \/ \E i \in ImpIds : \E s \in ImpScores \ {imps[i].score} :
          UpdateImportance(i, imps[i].label, s)
    \/ \E i \in ImpIds : DeleteImportance(i)

\* the mutations: the operations of the views and the ORM writes; every
\* category gets the least name free on its day, descriptions and target
\* names are not varied
Spec == Init /\ [][Next]_vars

\* the mutations and direct calls of the two calculate_scores methods
NextRecompute ==
    \/ Next
    \/ \E c \in CatIds : RecalculateCategory(c)
    \/ \E day \in DayIds : RecalculateDay(day)

SpecRecompute == Init /\ [][NextRecompute]_vars

\* the process may have imported apps.better.signals (test_signals.py
\* exercises the receivers) or not (BetterConfig.ready)
InitSignals ==
    /\ imps = [i \in ImpIds |-> IF i = 1 THEN [exists |-> TRUE, label |-> 1, score |-> 1]
                                 ELSE NoImportance]
    /\ days = [day \in DayIds |-> NoScoreDay]
    /\ cats = [c \in CatIds |-> NoTargetCategory]
    /\ tgts = [t \in TargetIds |-> NoTarget]
    /\ today = 1
    /\ last = NoOp
    /\ nops = 2
    /\ receivers \in BOOLEAN
    /\ procs = [p \in Procs |-> Idle]

SpecSignals == InitSignals /\ [][NextRecompute]_vars

\* a day with two categories of one target each, the stored scores up to
\* date, and no request in progress
InitConcurrent ==
    /\ receivers = SignalsConnected
    /\ today = 1
    /\ last = NoOp
    /\ nops = 0
    /\ procs = [p \in Procs |-> Idle]
    /\ imps = [i \in ImpIds |-> IF i = 1 THEN [exists |-> TRUE, label |-> 1, score |-> 1]
                                 ELSE IF i = 2 THEN [exists |-> TRUE, label |-> 2, score |-> MaxImpScore]
                                 ELSE NoImportance]
    /\ \E a1 \in BOOLEAN, a2 \in BOOLEAN :
          LET d0 == [imps |-> imps,
                     days |-> [day \in DayIds |->
                                 IF day = 1
                                 THEN [NoScoreDay EXCEPT !.exists = TRUE]
                                 ELSE NoScoreDay],
                     cats |-> [c \in CatIds |->
                                 IF c <= 2
                                 THEN [exists |-> TRUE, day |-> 1, name |-> c,
                                       description |-> 1, is_deleted |-> FALSE,
                                       score |-> Null, max_score |-> Null]
                                 ELSE NoTargetCategory],
                     tgts |-> [t \in TargetIds |->
                                 IF t <= 2
                                 THEN [exists |-> TRUE, name |-> 1, category |-> t,
                                       importance |-> t,
                                       is_achieved |-> IF t = 1 THEN a1 ELSE a2,
                                       is_deleted |-> FALSE]
                                 ELSE NoTarget],
                     depth |-> 0, calls |-> 0, overflow |-> FALSE]
              d1 == ScoreDay_calculate_scores(d0, 1)
          IN  /\ days = d1.days
              /\ cats = d1.cats
              /\ tgts = d1.tgts

NextConcurrent ==
    \/ \E p \in Procs, t \in TargetIds : StartToggle(p, t)
    \/ \E p \in Procs : ToggleSave(p)
    \/ \E p \in Procs : CategoryRead(p)
    \/ \E p \in Procs : CategoryWrite(p)
    \/ \E p \in Procs : DayList(p)
    \/ \E p \in Procs : DaySum(p)
    \/ \E p \in Procs : DayWrite(p)
    \/ \E p \in Procs, c \in CatIds : StartSoftDelete(p, c)
    \/ \E p \in Procs : SoftDeleteSave(p)
    \/ \E p \in Procs : SoftDeleteTargets(p)
    \/ \E p \in Procs : Fail(p)

\* requests that run at the same time, statement by statement
SpecConcurrent == InitConcurrent /\ [][NextConcurrent]_vars

\* the importance forms, with every label and every score a form can carry
NextImportance ==
    \/ \E i \in ImpIds, label \in Labels, s \in 0..MaxImpScore :
          CreateImportance(i, label, s)
    \/ \E i \in ImpIds, label \in Labels, s \in 0..MaxImpScore :
          UpdateImportance(i, label, s)
    \/ \E i \in ImpIds : DeleteImportance(i)

\* the registry holds a first importance level
InitImportance ==
    /\ imps = [i \in ImpIds |-> IF i = 1 THEN [exists |-> TRUE, label |-> 1, score |-> 1]
                                 ELSE NoImportance]
    /\ days = [day \in DayIds |-> NoScoreDay]
    /\ cats = [c \in CatIds |-> NoTargetCategory]
    /\ tgts = [t \in TargetIds |-> NoTarget]
    /\ today = 1
    /\ last = NoOp
    /\ nops = 3
    /\ receivers = SignalsConnected
    /\ procs = [p \in Procs |-> Idle]

SpecImportance == InitImportance /\ [][NextImportance]_vars

\* the days of the application and the category views, which work on the
\* non-deleted categories of the current day, with every name a form can carry
NextNames ==
    \/ NextDay
    \/ GetOrCreateDay
    \/ \E name \in Names : CreateCategory(today, name, 1)
    \/ \E c \in ActiveCategories(DB, today), name \in Names : RenameCategory(c, name)
    \/ \E c \in ActiveCategories(DB, today) : SoftDeleteCategory(c)

\* get_or_create_today has made the first Day and a first Category was
\* created for it (two operations)
InitNames ==
    /\ imps = [i \in ImpIds |-> NoImportance]
    /\ days = [day \in DayIds |->
                 IF day = 1 THEN [NoScoreDay EXCEPT !.exists = TRUE, !.score = 0,
                                                    !.max_score = 0]
                 ELSE NoScoreDay]
    /\ cats = [c \in CatIds |->
                 IF c = 1 THEN [NoTargetCategory EXCEPT !.exists = TRUE, !.day = 1,
                                                        !.name = 1, !.description = 1]
                 ELSE NoTargetCategory]
    /\ tgts = [t \in TargetIds |-> NoTarget]
    /\ today = 1
    /\ last = NoOp
    /\ nops = 2
    /\ receivers = SignalsConnected
    /\ procs = [p \in Procs |-> Idle]

SpecNames == InitNames /\ [][NextNames]_vars

\* the days of the application and the sleep/wake forms posted for them
NextSleep ==
    \/ NextDay
    \/ GetOrCreateDay
    \/ \E day \in DayIds, wake_time \in Times, sleep_time \in Times \cup {Null} :
          SetSleepWakeTimes(day, wake_time, sleep_time)

SpecSleep == Init /\ [][NextSleep]_vars

\* the toggle requests alone
NextToggle ==
    \/ \E p \in Procs, t \in TargetIds : StartToggle(p, t)
    \/ \E p \in Procs : ToggleSave(p)
    \/ \E p \in Procs : CategoryRead(p)
    \/ \E p \in Procs : CategoryWrite(p)
    \/ \E p \in Procs : DayList(p)
    \/ \E p \in Procs : DaySum(p)
    \/ \E p \in Procs : DayWrite(p)

\* a day with one category and its two targets, the stored scores up to
\* date, and no request in progress
InitToggle ==
    /\ receivers = SignalsConnected
    /\ today = 1
    /\ last = NoOp
    /\ nops = 0
    /\ procs = [p \in Procs |-> Idle]
    /\ imps = [i \in ImpIds |-> IF i = 1 THEN [exists |-> TRUE, label |-> 1, score |-> 1]
                                 ELSE IF i = 2 THEN [exists |-> TRUE, label |-> 2, score |-> MaxImpScore]
                                 ELSE NoImportance]
    /\ \E a1 \in BOOLEAN :
          LET d0 == [imps |-> imps,
                     days |-> [day \in DayIds |->
                                 IF day = 1
                                 THEN [NoScoreDay EXCEPT !.exists = TRUE]
                                 ELSE NoScoreDay],
                     cats |-> [c \in CatIds |->
                                 IF c = 1
                                 THEN [exists |-> TRUE, day |-> 1, name |-> 1,
                                       description |-> 1, is_deleted |-> FALSE,
                                       score |-> Null, max_score |-> Null]
                                 ELSE NoTargetCategory],
                     tgts |-> [t \in TargetIds |->
                                 IF t <= 2
                                 THEN [exists |-> TRUE, name |-> t, category |-> 1,
                                       importance |-> t,
                                       is_achieved |-> (t = 1 /\ a1),
                                       is_deleted |-> FALSE]
                                 ELSE NoTarget],
                     depth |-> 0, calls |-> 0, overflow |-> FALSE]
              d1 == ScoreDay_calculate_scores(d0, 1)
          IN  /\ days = d1.days
              /\ cats = d1.cats
              /\ tgts = d1.tgts

\* toggle requests that run at the same time, statement by statement
SpecToggle == InitToggle /\ [][NextToggle]_vars

\* toggle requests and sleep/wake forms of the dashboard that run at the
\* same time
NextSleepWake ==
    \/ NextToggle
    \/ \E p \in Procs, wake_time \in Times, sleep_time \in Times \cup {Null} :
          StartSleepWake(p, wake_time, sleep_time)
    \/ \E p \in Procs : SleepWakeSave(p)

SpecSleepWake == InitToggle /\ [][NextSleepWake]_vars

\* a low and a high importance level were created (two operations) and the
\* application is used on any date
InitCarry ==
    /\ imps = [i \in ImpIds |-> IF i = 1 THEN [exists |-> TRUE, label |-> 1, score |-> 1]
                                 ELSE IF i = 2 THEN [exists |-> TRUE, label |-> 2, score |-> MaxImpScore]
                                 ELSE NoImportance]
    /\ nops = 2
    /\ days = [day \in DayIds |-> NoScoreDay]
    /\ cats = [c \in CatIds |-> NoTargetCategory]
    /\ tgts = [t \in TargetIds |-> NoTarget]
    /\ today \in DayIds
    /\ last = NoOp
    /\ receivers = SignalsConnected
    /\ procs = [p \in Procs |-> Idle]

\* the operations that build, soft-delete and carry forward days
NextCarry ==
    \/ NextDay
    \/ GetOrCreateDay
    \/ \E day \in DayIds : CreateDay(day)
    \/ \E day \in DayIds : SoftDeleteDay(day)
    \/ \E day \in DayIds : \E name \in FreshNames(DB, day) : CreateCategory(day, name, 1)
    \/ \E c \in CatIds : SoftDeleteCategory(c)
    \/ \E c \in CatIds, i \in ImpIds, a \in BOOLEAN : CreateTarget(c, 1, i, a)
    \/ \E t \in TargetIds : SoftDeleteTarget(t)

SpecCarry == InitCarry /\ [][NextCarry]_vars

\* ------------------------------------------------------------ the views
\* the HTTP statuses of the responses
Ok == 200
Found == 302
NotFound == 404
ServerError == 500

\* Target.objects.filter(pk=pk, category__day=current_day, is_deleted=False)
TargetInScope(d, day, pk) ==
    /\ d.tgts[pk].exists
    /\ ~d.tgts[pk].is_deleted
    /\ d.cats[d.tgts[pk].category].day = day

\* TargetCategory.objects.filter(day=current_day, is_deleted=False) of
\* TargetCategoryUpdateView.get_queryset and TargetCategoryDeleteView.get_queryset
CategoryInScope(d, day, pk) ==
    /\ d.cats[pk].exists
    /\ ~d.cats[pk].is_deleted
    /\ d.cats[pk].day = day

\* the status TargetAchievementView.post answers with when the target is not
\* in scope: get_object_or_404 raises Http404, which is no Target.DoesNotExist
\* and is caught by "except Exception"
TargetAchievementView_missing == ServerError

\* TargetAchievementView.post of an HTMX request
TargetAchievementView_post(pk) ==
    /\ CanCreateToday
    /\ \E d0 \in {get_or_create_today(DB, today)} :
       LET l == [NoOp EXCEPT !.op = "TargetAchievementView", !.tgt = pk, !.day = today]
       IN  IF TargetInScope(d0, today, pk)
           THEN Commit(toggle_achievement(d0, pk),
                       [l EXCEPT !.cat = d0.tgts[pk].category, !.status = Ok])
           ELSE Commit(d0, [l EXCEPT !.ok = FALSE,
                                     !.status = TargetAchievementView_missing])

\* TargetCategoryUpdateView.post: get_object raises Http404 outside the
\* queryset; an invalid form is rendered again, a valid one is saved and an
\* IntegrityError of the save is not caught
TargetCategoryUpdateView_post(pk, name) ==
    /\ CanCreateToday
    /\ \E d0 \in {get_or_create_today(DB, today)} :
       LET l == [NoOp EXCEPT !.op = "TargetCategoryUpdateView", !.cat = pk, !.day = today]
       IN  IF ~CategoryInScope(d0, today, pk)
           THEN Commit(d0, [l EXCEPT !.ok = FALSE, !.status = NotFound])
           ELSE IF ~TargetCategoryForm_clean_name(d0, today, pk, name)
           THEN Commit(d0, [l EXCEPT !.ok = FALSE, !.status = Ok])
           ELSE IF NameTaken(d0, today, pk, name)
           THEN Commit(d0, [l EXCEPT !.ok = FALSE, !.status = ServerError])
           ELSE Commit(TargetCategory_post_save([d0 EXCEPT !.cats[pk].name = name],
                                                pk, FALSE),
                       [l EXCEPT !.status = Found])

\* TargetCategoryDeleteView.delete: the statements of soft_delete_with_targets
TargetCategoryDeleteView_delete(pk) ==
    /\ CanCreateToday
    /\ \E d0 \in {get_or_create_today(DB, today)} :
       LET l == [NoOp EXCEPT !.op = "TargetCategoryDeleteView", !.cat = pk, !.day = today]
       IN  IF ~CategoryInScope(d0, today, pk)
           THEN Commit(d0, [l EXCEPT !.ok = FALSE, !.status = NotFound])
           ELSE Commit(soft_delete_with_targets(d0, pk), [l EXCEPT !.status = Found])

\* TargetCategoryCreateView.post: the form is bound to the current day; an
\* invalid form is rendered again, an IntegrityError of the save is not caught
TargetCategoryCreateView_post(name) ==
    /\ CanCreateToday
    /\ \E d0 \in {get_or_create_today(DB, today)} :
       LET l == [NoOp EXCEPT !.op = "TargetCategoryCreateView", !.day = today,
                             !.name = name]
       IN  IF ~TargetCategoryForm_clean_name(d0, today, 0, name)
           THEN Commit(d0, [l EXCEPT !.ok = FALSE, !.status = Ok])
           ELSE IF NameTaken(d0, today, 0, name)
           THEN Commit(d0, [l EXCEPT !.ok = FALSE, !.status = ServerError])
           ELSE /\ FreeCategoryIds(d0) # {}
                /\ Commit(TargetCategory_create(d0, today, name, 1),
                          [l EXCEPT !.cat = MinOf(FreeCategoryIds(d0)), !.status = Found])

\* a day with one category and its target, the stored scores up to date
\* (an importance level, the day, the category and the target were created)
InitViews ==
    /\ receivers = SignalsConnected
    /\ today = 1
    /\ last = NoOp
    /\ nops = 4
    /\ procs = [p \in Procs |-> Idle]
    /\ imps = [i \in ImpIds |-> IF i = 1 THEN [exists |-> TRUE, label |-> 1, score |-> 1]
                                 ELSE NoImportance]
    /\ \E a1 \in BOOLEAN :
          LET d0 == [imps |-> imps,
                     days |-> [day \in DayIds |->
                                 IF day = 1
                                 THEN [NoScoreDay EXCEPT !.exists = TRUE]
                                 ELSE NoScoreDay],
                     cats |-> [c \in CatIds |->
                                 IF c = 1
                                 THEN [exists |-> TRUE, day |-> 1, name |-> 1,
                                       description |-> 1, is_deleted |-> FALSE,
                                       score |-> Null, max_score |-> Null]
                                 ELSE NoTargetCategory],
                     tgts |-> [t \in TargetIds |->
                                 IF t = 1
                                 THEN [exists |-> TRUE, name |-> 1, category |-> 1,
                                       importance |-> 1, is_achieved |-> a1,
                                       is_deleted |-> FALSE]
                                 ELSE NoTarget],
                     depth |-> 0, calls |-> 0, overflow |-> FALSE]
              d1 == ScoreDay_calculate_scores(d0, 1)
          IN  /\ days = d1.days
              /\ cats = d1.cats
              /\ tgts = d1.tgts

\* the requests of the target and category views, with every identifier and
\* every name a request can carry, and the soft delete of a target
NextViews ==
    \/ NextDay
    \/ \E pk \in TargetIds : TargetAchievementView_post(pk)
    \/ \E pk \in CatIds, name \in Names : TargetCategoryUpdateView_post(pk, name)
    \/ \E pk \in CatIds : TargetCategoryDeleteView_delete(pk)
    \/ \E name \in Names : TargetCategoryCreateView_post(name)
    \/ \E t \in TargetIds : SoftDeleteTarget(t)

SpecViews == InitViews /\ [][NextViews]_vars

\* ------------------------------------------------------ normalized score
\* the factor of get_normalized_score when it changes above 100 instead of at 100
NormalizationFactor_above(max_score) ==
    IF max_score > 100 THEN 100 ELSE 10

\* get_normalized_score: "if self.max_score >= 100: factor = 100 else: factor = 10"
NormalizationFactor(max_score) ==
    IF max_score >= 100 THEN 100 ELSE 10

\* ScoreDay.get_normalized_score / TargetCategory.get_normalized_score (the
\* same statements), in tenths: round(score / max_score * 100 * factor / 100, 1).
\* The division and the products are binary floating point, so a quotient
\* that lies exactly between two tenths reaches round() a little below or a
\* little above the middle (23/40 gives 5.7, 3/8 gives 3.8): up tells which.
get_normalized_score(score, max_score, up) ==
    IF max_score = Null \/ max_score = 0
    THEN 0
    ELSE LET factor == NormalizationFactor(max_score)
             tenths == score * factor * 10
             below == tenths \div max_score
             rest == 2 * (tenths % max_score)
         IN  IF rest < max_score THEN below
             ELSE IF rest > max_score THEN below + 1
             ELSE IF up THEN below + 1 ELSE below

\* score_day.get_normalized_score()
DayNormalizedScore(day) ==
    /\ days[day].exists
    /\ \E up \in BOOLEAN :
          last' = [NoOp EXCEPT !.op = "DayNormalizedScore", !.day = day,
                      !.value = get_normalized_score(days[day].score,
                                                     days[day].max_score, up)]
    /\ UNCHANGED <<imps, days, cats, tgts, today, nops, receivers, procs>>

\* category.get_normalized_score()
CategoryNormalizedScore(c) ==
    /\ cats[c].exists
    /\ \E up \in BOOLEAN :
          last' = [NoOp EXCEPT !.op = "CategoryNormalizedScore", !.cat = c,
                      !.day = cats[c].day,
                      !.value = get_normalized_score(cats[c].score,
                                                     cats[c].max_score, up)]
    /\ UNCHANGED <<imps, days, cats, tgts, today, nops, receivers, procs>>

\* the pairs a row can store: both NULL (a new row) or two numbers; no
\* operation stores a NULL score beside a max_score (get_normalized_score
\* would raise TypeError on it)
StoredPairs ==
    {<<Null, Null>>} \cup ((0..MaxStored) \X (0..MaxStored))

\* a day and a category of it that store any pair, as
\* ScoreDay.objects.create(day=..., score=3, max_score=10) makes them
InitNormalized ==
    /\ receivers = SignalsConnected
    /\ today = 1
    /\ last = NoOp
    /\ nops = 0
    /\ procs = [p \in Procs |-> Idle]
    /\ imps = [i \in ImpIds |-> NoImportance]
    /\ tgts = [t \in TargetIds |-> NoTarget]
    /\ \E pair \in StoredPairs, ofDay \in BOOLEAN :
          /\ days = [day \in DayIds |->
                       IF day = 1
                       THEN [NoScoreDay EXCEPT !.exists = TRUE,
                                !.score = IF ofDay THEN pair[1] ELSE 0,
                                !.max_score = IF ofDay THEN pair[2] ELSE 0]
                       ELSE NoScoreDay]
          /\ cats = [c \in CatIds |->
                       IF c = 1
                       THEN [NoTargetCategory EXCEPT !.exists = TRUE, !.day = 1,
                                !.name = 1, !.description = 1,
                                !.score = IF ofDay THEN Null ELSE pair[1],
                                !.max_score = IF ofDay THEN Null ELSE pair[2]]
                       ELSE NoTargetCategory]

NextNormalized ==
    \/ \E day \in DayIds : DayNormalizedScore(day)
    \/ \E c \in CatIds : CategoryNormalizedScore(c)

SpecNormalized == InitNormalized /\ [][NextNormalized]_vars

\* ------------------------------------------------------- derived values
\* The values the specification derives from the current rows (4.1, 4.2).
GlobalMax ==
    IF \A i \in ImpIds : ~imps[i].exists THEN 0
    ELSE MaxOf({imps[i].score : i \in {j \in ImpIds : imps[j].exists}})

LiveTargets(c) ==
    {t \in TargetIds : tgts[t].exists /\ tgts[t].category = c /\ ~tgts[t].is_deleted}

LiveCategories(day) ==
    {c \in CatIds : cats[c].exists /\ cats[c].day = day /\ ~cats[c].is_deleted}

LiveDays == {day \in DayIds : days[day].exists /\ ~days[day].is_deleted}

DerivedMaxScore(c) == Cardinality(LiveTargets(c)) * GlobalMax

DerivedScore(c) ==
    LET A == {t \in LiveTargets(c) : tgts[t].is_achieved}
    IN  SumF([t \in A |-> imps[tgts[t].importance].score], A)

CategoryUpToDate(c) ==
    /\ NullAsZero(cats[c].score) = DerivedScore(c)
    /\ NullAsZero(cats[c].max_score) = DerivedMaxScore(c)

DayUpToDate(day) ==
    LET L == LiveCategories(day)
    IN  /\ NullAsZero(days[day].score) = SumF([c \in L |-> DerivedScore(c)], L)
        /\ NullAsZero(days[day].max_score) = SumF([c \in L |-> DerivedMaxScore(c)], L)

TargetOps == {"CreateTarget", "UpdateTarget", "ToggleAchievement",
              "SoftDeleteTarget", "HardDeleteTarget"}
CategoryOps == {"CreateCategory", "RenameCategory", "SaveCategoryDeleted",
                "SoftDeleteCategory", "HardDeleteCategory"}
ImportanceSaveOps == {"CreateImportance", "UpdateImportance"}
ImportanceOps == ImportanceSaveOps \cup {"DeleteImportance"}

\* the non-deleted categories / days a completed mutation owns or fans out to
OwningCategories ==
    IF last.op \in TargetOps \cup CategoryOps
    THEN {c \in {last.cat} : c # 0 /\ cats[c].exists /\ ~cats[c].is_deleted}
    ELSE IF last.op \in ImportanceOps /\ last.ok
         THEN UNION {LiveCategories(day) : day \in LiveDays}
         ELSE {}

OwningDays ==
    IF last.op \in TargetOps \cup CategoryOps
    THEN {last.day}
    ELSE IF last.op \in ImportanceOps /\ last.ok THEN LiveDays ELSE {}

\* the categories whose calculate_scores was the last write to them
RecomputedCategories ==
    IF last.op = "RecalculateCategory" THEN {last.cat}
    ELSE IF last.op = "ToggleAchievement"
         THEN {last.cat} \cup LiveCategories(last.day)
         ELSE IF \/ last.op \in {"RecalculateDay", "SoftDeleteCategory"}
                 \/ (last.op = "GetOrCreateDay" /\ last.ok)
              THEN LiveCategories(last.day)
              ELSE {}

\* the days whose calculate_scores was the last write to them
RecomputedDays ==
    IF \/ last.op \in {"RecalculateDay", "SoftDeleteCategory", "ToggleAchievement"}
       \/ (last.op = "GetOrCreateDay" /\ last.ok)
    THEN {last.day}
    ELSE {}

\* ------------------------------------------------------------------ claims

\* C1: after any single completed mutation of a Target, a Category or an
\* ImportanceLevel, the stored (score, max_score) of the owning Category and
\* of the owning Day equal the values derived from the current rows.
C1_CacheFreshAfterMutation ==
    /\ \A c \in OwningCategories : CategoryUpToDate(c)
    /\ \A day \in OwningDays : DayUpToDate(day)

\* C2: after every completed mutation, for every Day the stored score equals
\* the sum of the stored scores of its non-deleted Categories, and the stored
\* max_score the sum of their stored max_scores (null counted as 0).
C2_BottomUpConsistency ==
    \A day \in DayIds : days[day].exists =>
        LET L == LiveCategories(day)
        IN  /\ NullAsZero(days[day].score)
                  = SumF([c \in L |-> NullAsZero(cats[c].score)], L)
            /\ NullAsZero(days[day].max_score)
                  = SumF([c \in L |-> NullAsZero(cats[c].max_score)], L)

\* C3: a Category recompute stores max_score = N * M, N the number of its
\* non-deleted targets and M the global maximum importance score (0 if there
\* is no level), whatever levels its own targets reference.
C3_MaxScoreFormula ==
    \A c \in RecomputedCategories :
        cats[c].max_score = Cardinality(LiveTargets(c)) * GlobalMax

\* C3 witness: a recomputed category with two targets that all reference a
\* level below the global maximum.
C3_Witness ==
    /\ last.op = "RecalculateCategory"
    /\ Cardinality(LiveTargets(last.cat)) = 2
    /\ \A t \in LiveTargets(last.cat) : imps[tgts[t].importance].score < GlobalMax
    /\ cats[last.cat].max_score = 2 * GlobalMax

\* C4: a Category recompute stores score = the sum of importance.score over
\* exactly the targets of the category that are non-deleted and achieved.
C4_ScoreIsAchievedSum ==
    \A c \in RecomputedCategories :
        LET A == {t \in TargetIds : /\ tgts[t].exists
                                    /\ tgts[t].category = c
                                    /\ tgts[t].is_achieved
                                    /\ ~tgts[t].is_deleted}
        IN  cats[c].score = SumF([t \in A |-> imps[tgts[t].importance].score], A)

\* C4 witness: a recomputed category with one achieved and one unachieved
\* non-deleted target.
C4_Witness ==
    /\ last.op \in {"RecalculateCategory", "ToggleAchievement"}
    /\ \E t, u \in LiveTargets(last.cat) : tgts[t].is_achieved /\ ~tgts[u].is_achieved
    /\ cats[last.cat].score > 0

\* C5: a target with is_deleted = true contributes 0 to score and max_score
\* of its Category and Day at every recompute: the stored values are those
\* of the same rows with every soft-deleted target row removed.
C5_DeletedExclusion ==
    LET Kept(c) == {t \in TargetIds : tgts[t].exists /\ tgts[t].category = c}
                       \ {t \in TargetIds : tgts[t].is_deleted}
        Score(c) == LET A == {t \in Kept(c) : tgts[t].is_achieved}
                    IN  SumF([t \in A |-> imps[tgts[t].importance].score], A)
        Max(c) == Cardinality(Kept(c)) * GlobalMax
    IN  /\ \A c \in RecomputedCategories :
              cats[c].score = Score(c) /\ cats[c].max_score = Max(c)
        /\ \A day \in RecomputedDays :
              LET L == LiveCategories(day)
              IN  /\ days[day].score = SumF([c \in L |-> Score(c)], L)
                  /\ days[day].max_score = SumF([c \in L |-> Max(c)], L)

\* C5 witness: a day recompute over a category that holds an achieved,
\* soft-deleted target next to a non-deleted one.
C5_Witness ==
    /\ last.op = "RecalculateDay"
    /\ \E c \in LiveCategories(last.day) :
          /\ \E t \in TargetIds : /\ tgts[t].exists /\ tgts[t].category = c
                                  /\ tgts[t].is_deleted /\ tgts[t].is_achieved
          /\ LiveTargets(c) # {}

\* C6: when a Target is saved with is_deleted set to true the recompute
\* still fires: its Category and that Category's Day no longer include it.
C6_SoftDeleteTargetRecomputes ==
    last.op = "SoftDeleteTarget" =>
        /\ CategoryUpToDate(last.cat)
        /\ DayUpToDate(last.day)

\* C7: creating or saving a non-deleted Target, with no explicit recompute
\* by the caller, recomputes its Category and then that Category's Day.
C7_TargetSaveRecomputes ==
    last.op \in {"CreateTarget", "UpdateTarget"} =>
        /\ CategoryUpToDate(last.cat)
        /\ DayUpToDate(last.day)

\* C8: after a Target row is hard-deleted, its former Category and that
\* Category's Day hold the values computed from the remaining targets.
C8_HardDeleteTargetRecomputes ==
    last.op = "HardDeleteTarget" =>
        /\ CategoryUpToDate(last.cat)
        /\ DayUpToDate(last.day)

\* C9: after an ImportanceLevel is created or its score changed so that the
\* global maximum changes, every non-deleted Category of every Day with at
\* least one non-deleted target has max_score = target count * new maximum,
\* and every Category without targets keeps max_score 0.
C9_ImportanceFanOut ==
    (last.op \in ImportanceSaveOps /\ last.m # GlobalMax) =>
        \A day \in LiveDays : \A c \in LiveCategories(day) :
            NullAsZero(cats[c].max_score) = Cardinality(LiveTargets(c)) * GlobalMax

\* C10: deleteImportance on a level referenced by at least one non-deleted
\* Target fails with an in-use error naming the count and leaves the level,
\* the targets and all stored scores unchanged.
C10_DeletionGuard ==
    [][(nops' # nops /\ last'.op = "DeleteImportance"
            /\ \E t \in TargetIds : /\ tgts[t].exists
                                    /\ tgts[t].importance = last'.imp
                                    /\ ~tgts[t].is_deleted)
        => /\ ~last'.ok
           /\ last'.count = Cardinality({t \in TargetIds : /\ tgts[t].exists
                                                          /\ tgts[t].importance = last'.imp
                                                          /\ ~tgts[t].is_deleted})
           /\ UNCHANGED <<imps, days, cats, tgts>>]_vars

\* C10 witness: a refused deletion of a level that a live target uses while
\* a soft-deleted target uses it too.
C10_Witness ==
    /\ last.op = "DeleteImportance"
    /\ ~last.ok
    /\ last.count = 1
    /\ \E t \in TargetIds : tgts[t].exists /\ tgts[t].importance = last.imp /\ tgts[t].is_deleted

\* C11: when the ImportanceLevel that holds the global maximum is deleted
\* while a lower level remains, every non-deleted Day is recomputed with the
\* new maximum: every non-deleted Category has max_score = target count *
\* new global maximum.
C11_ImportanceDeleteFanOut ==
    (last.op = "DeleteImportance" /\ last.ok /\ GlobalMax > 0 /\ last.m > GlobalMax) =>
        \A day \in LiveDays : \A c \in LiveCategories(day) :
            NullAsZero(cats[c].max_score) = Cardinality(LiveTargets(c)) * GlobalMax

\* C17: after get_or_create_today created a Day and carried forward, every
\* Category of the new Day has score 0 and max_score = (number of its targets
\* * global maximum), both non-null, every Target of it is unachieved, and
\* the Day's stored score is 0.
C17_CarryForwardReset ==
    (last.op = "GetOrCreateDay" /\ last.ok) =>
        /\ \A c \in CatIds : (cats[c].exists /\ cats[c].day = last.day) =>
              LET T == {t \in TargetIds : tgts[t].exists /\ tgts[t].category = c}
              IN  /\ cats[c].score = 0
                  /\ cats[c].max_score = Cardinality(T) * GlobalMax
                  /\ \A t \in T : ~tgts[t].is_achieved
        /\ days[last.day].score = 0

\* C17 witness: a created Day with a copied Category whose Target was copied
\* from an achieved Target of an earlier Day.
C17_Witness ==
    /\ last.op = "GetOrCreateDay"
    /\ last.ok
    /\ \E c \in CatIds, t \in TargetIds, u \in TargetIds :
          /\ cats[c].exists /\ cats[c].day = last.day
          /\ tgts[t].exists /\ tgts[t].category = c
          /\ tgts[u].exists /\ tgts[u].is_achieved /\ ~tgts[u].is_deleted
          /\ cats[tgts[u].category].day < last.day
          /\ tgts[u].importance = tgts[t].importance
          /\ cats[c].max_score > 0

\* C18: a get_or_create_today that creates the Day of the date copies from
\* the greatest earlier date that has a non-deleted Day: one Category per
\* non-deleted source Category with its name and description, one Target per
\* non-deleted source Target with its name and Importance; nothing else is
\* created or changed, and nothing at all without such an earlier Day.
C18_CarryForwardContent ==
    [][(nops' # nops /\ last'.op = "GetOrCreateDay" /\ last'.ok) =>
        LET P == {p \in DayIds : p < today /\ days[p].exists /\ ~days[p].is_deleted}
            NewCats == {c \in CatIds : cats'[c].exists /\ ~cats[c].exists}
            NewTgts == {t \in TargetIds : tgts'[t].exists /\ ~tgts[t].exists}
        IN  /\ \A c \in CatIds : cats[c].exists => cats'[c] = cats[c]
            /\ \A t \in TargetIds : tgts[t].exists => tgts'[t] = tgts[t]
            /\ \A c \in NewCats : cats'[c].day = today /\ ~cats'[c].is_deleted
            /\ \A t \in NewTgts : tgts'[t].category \in NewCats /\ ~tgts'[t].is_deleted
            /\ IF P = {}
               THEN NewCats = {} /\ NewTgts = {}
               ELSE LET src == MaxOf(P)
                        SrcCats == {c \in CatIds : /\ cats[c].exists /\ cats[c].day = src
                                                   /\ ~cats[c].is_deleted}
                    IN  /\ Cardinality(NewCats) = Cardinality(SrcCats)
                        /\ \A sc \in SrcCats :
                              \E c \in NewCats :
                                 /\ cats'[c].name = cats[sc].name
                                 /\ cats'[c].description = cats[sc].description
                                 /\ \A n \in Texts, i \in ImpIds :
                                       Cardinality({t \in NewTgts :
                                                       /\ tgts'[t].category = c
                                                       /\ tgts'[t].name = n
                                                       /\ tgts'[t].importance = i})
                                     = Cardinality({u \in TargetIds :
                                                       /\ tgts[u].exists
                                                       /\ tgts[u].category = sc
                                                       /\ ~tgts[u].is_deleted
                                                       /\ tgts[u].name = n
                                                       /\ tgts[u].importance = i})]_vars

\* C18 witness: a created Day that copied a Category from a Day that lies
\* before a soft-deleted Day.
C18_Witness ==
    /\ last.op = "GetOrCreateDay"
    /\ last.ok
    /\ \E p \in DayIds, q \in DayIds :
          /\ q < p /\ p < last.day
          /\ days[p].exists /\ days[p].is_deleted
          /\ days[q].exists /\ ~days[q].is_deleted
          /\ \E sc \in LiveCategories(q) : \E c \in LiveCategories(last.day) :
                cats[c].name = cats[sc].name

\* C19: get_or_create_today returns a Day of the date with is_deleted =
\* false, whatever rows exist, also when the only Day row of the date is
\* soft-deleted.
C19_ReturnsNonDeletedDay ==
    last.op = "GetOrCreateDay" =>
        days[last.day].exists /\ ~days[last.day].is_deleted

\* C20: a get_or_create_today that finds a Day row of the date returns it,
\* creates no Day and carries nothing forward (no row is added or changed);
\* one that finds none adds exactly the row of the date.
C20_GetOrCreateIdempotent ==
    [][(nops' # nops /\ last'.op = "GetOrCreateDay") =>
        /\ last'.day = today
        /\ days'[today].exists
        /\ \A day \in DayIds \ {today} : days'[day] = days[day]
        /\ days[today].exists =>
              /\ ~last'.ok
              /\ UNCHANGED <<imps, days, cats, tgts>>]_vars

\* C20 witness: a call that found the Day of the date, which has no
\* Category, while an earlier non-deleted Day has one.
C20_Witness ==
    /\ last.op = "GetOrCreateDay"
    /\ ~last.ok
    /\ ~days[last.day].is_deleted
    /\ LiveCategories(last.day) = {}
    /\ \E p \in LiveDays : p < last.day /\ LiveCategories(p) # {}

C13_CascadeTerminates == last.done

\* C13 witness: with the receivers connected, a save or hard delete of a
\* Target whose Category is soft-deleted ran its whole cascade (the Category,
\* the Day re-entered from the Category's save, the Day again).
C13_Witness ==
    /\ receivers
    /\ last.op \in {"UpdateTarget", "HardDeleteTarget"}
    /\ cats[last.cat].exists
    /\ cats[last.cat].is_deleted
    /\ last.calls >= 3
    /\ last.done

\* C14: when two toggles of two different Targets in two different
\* Categories of one Day have both completed, however their statements
\* interleaved, the stored scores of each Category and of the Day are the
\* values derived from the rows (they reflect both toggles).
C14_ConcurrentTogglesSafe ==
    (/\ \A p \in Procs : procs[p].op = "toggle" /\ procs[p].pc = "done"
     /\ \A p, q \in Procs : p # q =>
           /\ procs[p].tgt # procs[q].tgt
           /\ procs[p].cat # procs[q].cat
           /\ procs[p].day = procs[q].day)
    => \A p \in Procs :
          /\ CategoryUpToDate(procs[p].cat)
          /\ DayUpToDate(procs[p].day)

\* C15: no state that a reader can observe shows the changed Target of a
\* toggle in progress while the stored scores of its Category or Day are
\* still the values from before the change.
C15_ReaderIsolation ==
    \A p \in Procs :
        (/\ procs[p].op = "toggle"
         /\ procs[p].pc \in {"cat_read", "cat_write", "day_list", "day_sum", "day_write"}
         /\ tgts[procs[p].tgt] # procs[p].before.tgts[procs[p].tgt])
        => ~(\/ cats[procs[p].cat].score = procs[p].before.cats[procs[p].cat].score
             \/ days[procs[p].day].score = procs[p].before.days[procs[p].day].score)

\* C16: a request that fails leaves nothing changed: when a request has
\* failed and no other request ever started, every Day, Category and Target
\* row is as the request found it.
C16_AllOrNothing ==
    \A p \in Procs :
        (/\ procs[p].pc = "failed"
         /\ \A q \in Procs \ {p} : procs[q].pc = "idle")
        => Tables = procs[p].before

\* C21: after softDeleteCategory(c) the Category c is marked deleted, every
\* Target row of c is still there and marked deleted, and the stored score and
\* max_score of the owning Day are the sums over the Day's remaining
\* non-deleted Categories (0 and 0 when none remains).
C21_SoftDeleteCascade ==
    [][(nops' # nops /\ last'.op = "SoftDeleteCategory") =>
        LET c == last'.cat
            day == last'.day
            L == {e \in CatIds : cats'[e].exists /\ cats'[e].day = day
                                 /\ ~cats'[e].is_deleted}
        IN  /\ cats'[c].exists
            /\ cats'[c].is_deleted
            /\ \A t \in TargetIds :
                  (tgts[t].exists /\ tgts[t].category = c) =>
                      /\ tgts'[t].exists
                      /\ tgts'[t].category = c
                      /\ tgts'[t].is_deleted
            /\ days'[day].score = SumF([e \in L |-> NullAsZero(cats'[e].score)], L)
            /\ days'[day].max_score = SumF([e \in L |-> NullAsZero(cats'[e].max_score)], L)
            /\ \A e \in L : (CategoryUpToDate(e))'
            /\ (L = {} => days'[day].score = 0 /\ days'[day].max_score = 0)]_vars

\* C21 witness: a Category whose achieved Target counted in the Day's stored
\* total has been soft-deleted with its Target.
C21_Witness ==
    /\ last.op = "SoftDeleteCategory"
    /\ cats[last.cat].is_deleted
    /\ \E t \in TargetIds :
          /\ tgts[t].exists
          /\ tgts[t].category = last.cat
          /\ tgts[t].is_deleted
          /\ tgts[t].is_achieved
    /\ NullAsZero(cats[last.cat].score) > 0

\* C22: saving a Category with is_deleted set to true recomputes its Day:
\* the Day's stored score and max_score no longer include the Category's
\* contribution (both are 0 when it was the only Category).
C22_CategorySoftDeleteRecomputes ==
    last.op = "SaveCategoryDeleted" =>
        /\ DayUpToDate(last.day)
        /\ (LiveCategories(last.day) = {} =>
               /\ days[last.day].score = 0
               /\ days[last.day].max_score = 0)

\* C23: renaming a non-deleted Category or changing its description
\* recomputes its Day, so the Day's stored score and max_score are the sums
\* over its non-deleted Categories after the save.
C23_CategoryRenameRecomputes ==
    (last.op = "RenameCategory" /\ last.ok /\ ~cats[last.cat].is_deleted) =>
        DayUpToDate(last.day)

\* C24: after a Category is hard-deleted (its Targets go with it by cascade)
\* its Day is recomputed: the Day's stored score and max_score are the sums
\* over the remaining non-deleted Categories.
C24_CategoryHardDeleteRecomputes ==
    (last.op = "HardDeleteCategory" /\ days[last.day].exists) =>
        DayUpToDate(last.day)

\* C25: a recompute never stores null: after a Category recompute both
\* stored fields are non-null, and 0 and 0 when the Category has no
\* non-deleted Target; after a Day recompute both stored fields are non-null,
\* and 0 and 0 when the Day has no non-deleted Category.
C25_RecomputeNeverNull ==
    /\ \A c \in RecomputedCategories : cats[c].exists =>
          /\ cats[c].score # Null
          /\ cats[c].max_score # Null
          /\ (LiveTargets(c) = {} => cats[c].score = 0 /\ cats[c].max_score = 0)
    /\ \A day \in RecomputedDays : days[day].exists =>
          /\ days[day].score # Null
          /\ days[day].max_score # Null
          /\ (LiveCategories(day) = {} =>
                 days[day].score = 0 /\ days[day].max_score = 0)

\* C25 witness: a Day without non-deleted Categories was recomputed, and its
\* soft-deleted Category without Targets holds the 0 and 0 of its own
\* recompute.
C25_Witness ==
    /\ last.op = "RecalculateDay"
    /\ days[last.day].exists
    /\ LiveCategories(last.day) = {}
    /\ days[last.day].score = 0
    /\ days[last.day].max_score = 0
    /\ \E c \in CatIds :
          /\ cats[c].exists
          /\ cats[c].day = last.day
          /\ LiveTargets(c) = {}
          /\ cats[c].score = 0
          /\ cats[c].max_score = 0

\* C26: recompute is idempotent: a direct recompute of a Category (of a Day)
\* that immediately follows a direct recompute of the same Category (Day),
\* with no change to targets, categories or importance levels in between,
\* leaves every stored score and max_score as the first call stored them.
C26_RecomputeIdempotent ==
    [][(nops' # nops /\ last'.again) =>
        /\ last'.op = last.op
        /\ \A c \in CatIds :
              /\ cats'[c].score = cats[c].score
              /\ cats'[c].max_score = cats[c].max_score
        /\ \A day \in DayIds :
              /\ days'[day].score = days[day].score
              /\ days'[day].max_score = days[day].max_score]_vars

\* C26 witness: a Day holding a Category with an achieved Target was
\* recomputed twice in a row.
C26_Witness ==
    /\ last.op = "RecalculateDay"
    /\ last.again
    /\ days[last.day].score > 0
    /\ \E c \in LiveCategories(last.day) : cats[c].score > 0

\* the value of is_achieved that the toggle request p read
ReadValue(p) == procs[p].before.tgts[procs[p].tgt].is_achieved

\* the toggle requests on Target t that have executed their save
Savers(t) ==
    {p \in Procs : /\ procs[p].op = "toggle"
                   /\ procs[p].tgt = t
                   /\ procs[p].pc \notin {"idle", "save"}}

\* C27: toggles of the same Target are last-write-wins: each save writes the
\* negation of the value its request read, and the stored value is then the
\* value of that save; so when the requests that have saved a Target all
\* read the same value, the Target holds the negation of that value (it is
\* flipped once, however many they are).
C27_ToggleLastWriteWins ==
    [][/\ \A p \in Procs :
             (procs[p].pc = "save" /\ procs'[p].pc = "cat_read") =>
                 tgts'[procs[p].tgt].is_achieved = ~ReadValue(p)
       /\ \A t \in TargetIds :
             (/\ Savers(t)' # {}
              /\ \A p, q \in Savers(t)' : ReadValue(p)' = ReadValue(q)') =>
                 \A p \in Savers(t)' : tgts'[t].is_achieved = ~ReadValue(p)']_vars

\* C27 witness: two toggle requests on the same Target that read the same
\* value have both completed, and the Target is flipped once.
C27_Witness ==
    \E p, q \in Procs :
        /\ p # q
        /\ procs[p].op = "toggle" /\ procs[p].pc = "done"
        /\ procs[q].op = "toggle" /\ procs[q].pc = "done"
        /\ procs[p].tgt = procs[q].tgt
        /\ ReadValue(p) = ReadValue(q)
        /\ tgts[procs[p].tgt].is_achieved = ~ReadValue(p)

\* C28: a sleep/wake form whose sleep time is earlier than its wake time is
\* not rejected: it is accepted, and sleep_time is stored on the calendar day
\* after the Day's date.
C28_SleepBeforeWakeNormalized ==
    [][(/\ nops' # nops
        /\ last'.op = "SetSleepWakeTimes"
        /\ last'.sleep # Null
        /\ last'.sleep < last'.wake) =>
           /\ last'.ok
           /\ days'[last'.day].sleep_time = Combine(last'.day + 1, last'.sleep)]_vars

\* two texts over words are equal ignoring case
SameIgnoringCase(a, b, words) == a = b \/ a = b + words \/ b = a + words

\* C29: after any sequence of importance creates, updates and deletes no
\* two ImportanceLevels have labels that are equal ignoring case and every
\* ImportanceLevel has a non-empty label and a score of at least 1; a create
\* or update that is rejected changes nothing.
C29_ImportanceRegistry ==
    [][/\ \A i, j \in ImpIds :
             (i # j /\ imps'[i].exists /\ imps'[j].exists) =>
                 ~SameIgnoringCase(imps'[i].label, imps'[j].label, MaxLabels)
       /\ \A i \in ImpIds : imps'[i].exists => imps'[i].score >= 1 /\ imps'[i].label # 0
       /\ (nops' # nops /\ last'.op \in ImportanceSaveOps /\ ~last'.ok) =>
             UNCHANGED <<imps, days, cats, tgts>>
       /\ (nops' # nops /\ last'.op \in ImportanceSaveOps /\ last'.ok) =>
             /\ imps'[last'.imp].exists
             /\ \A j \in ImpIds \ {last'.imp} : imps'[j] = imps[j]]_vars

\* C29 witness: an update was rejected while the registry holds two levels,
\* one with a label in the second spelling and a score above the minimum.
C29_Witness ==
    /\ last.op = "UpdateImportance"
    /\ ~last.ok
    /\ \E i, j \in ImpIds :
          /\ i # j
          /\ imps[i].exists /\ imps[j].exists
          /\ imps[i].label > MaxLabels
          /\ imps[j].label <= MaxLabels
          /\ imps[i].score > 1

\* C30: after any sequence of category creates, renames, soft deletes and
\* carry-forwards no two non-deleted Categories of the same Day have names
\* that are equal ignoring case (the same name may exist on different Days).
C30_CategoryNameUnique ==
    \A c, e \in CatIds :
        (/\ c # e
         /\ cats[c].exists /\ ~cats[c].is_deleted
         /\ cats[e].exists /\ ~cats[e].is_deleted
         /\ cats[c].day = cats[e].day)
        => ~SameIgnoringCase(cats[c].name, cats[e].name, MaxTexts)

\* C30 witness: a create or rename was refused on a Day that holds a
\* non-deleted Category whose name a Category of another Day holds too.
C30_Witness ==
    /\ last.op \in {"CreateCategory", "RenameCategory"}
    /\ ~last.ok
    /\ \E c, e \in CatIds :
          /\ cats[c].exists /\ ~cats[c].is_deleted
          /\ cats[e].exists /\ ~cats[e].is_deleted
          /\ cats[c].day = last.day
          /\ cats[e].day # last.day
          /\ cats[c].name = cats[e].name

\* ------------------------------------------------------------------ C31
\* the rows that existed before the step: no target changed and no stored
\* score of a category or a day changed
NothingChanged ==
    /\ \A t \in TargetIds : tgts[t].exists => tgts'[t] = tgts[t]
    /\ \A c \in CatIds : cats[c].exists => cats'[c] = cats[c]
    /\ \A day \in DayIds : days[day].exists => days'[day] = days[day]
    /\ imps' = imps

\* C31: a toggle request for a target that is unknown, soft-deleted or of a
\* category of another day, and an update or delete request for a category
\* that is unknown, soft-deleted or of another day, is answered with "not
\* found" and changes no target and no stored score
C31_NotFoundGuard ==
    [][LET d0 == get_or_create_today(DB, today)
       IN  /\ (/\ last'.op = "TargetAchievementView"
               /\ ~TargetInScope(d0, today, last'.tgt))
                  => (last'.status = NotFound /\ NothingChanged)
           /\ (/\ last'.op \in {"TargetCategoryUpdateView", "TargetCategoryDeleteView"}
               /\ ~CategoryInScope(d0, today, last'.cat))
                  => (last'.status = NotFound /\ NothingChanged)]_vars

\* ------------------------------------------------------------------ C32
\* the display value, in tenths, that the stored pair of the row last asked has
Stored ==
    IF last.op = "DayNormalizedScore"
    THEN <<days[last.day].score, days[last.day].max_score>>
    ELSE <<cats[last.cat].score, cats[last.cat].max_score>>

\* v tenths is score / max_score * factor rounded to one decimal: no tenth
\* is nearer
RoundedToOneDecimal(v, score, max_score, factor) ==
    LET d == 10 * score * factor - v * max_score
    IN  2 * (IF d < 0 THEN -d ELSE d) <= max_score

\* C32: the normalized score of a stored (score, max_score) is 0 when
\* max_score is 0 or NULL; otherwise it is score / max_score x 100 when
\* max_score >= 100 and score / max_score x 10 when max_score < 100, rounded
\* to one decimal; (3, 10) gives 3.0 and (75, 150) gives 50.0
C32_NormalizedScore ==
    last.op \in {"DayNormalizedScore", "CategoryNormalizedScore"} =>
        LET score == Stored[1]
            max_score == Stored[2]
        IN  /\ (max_score = Null \/ max_score = 0) => last.value = 0
            /\ (max_score # Null /\ max_score >= 100) =>
                   RoundedToOneDecimal(last.value, score, max_score, 100)
            /\ (max_score # Null /\ max_score > 0 /\ max_score < 100) =>
                   RoundedToOneDecimal(last.value, score, max_score, 10)
            /\ (score = 3 /\ max_score = 10) => last.value = 30
            /\ (score = 75 /\ max_score = 150) => last.value = 500

\* C32 witness: a category that stores (75, 100), the first max_score of the
\* large scale, was asked and answered 75.0
C32_Witness ==
    /\ last.op = "CategoryNormalizedScore"
    /\ cats[last.cat].score = 75
    /\ cats[last.cat].max_score = 100
    /\ last.value = 750

\* ------------------------------------------------------------------ C33
\* the operations whose last statement is the recompute of the day
DayRecomputeOps == {"RecalculateDay", "ToggleAchievement", "SoftDeleteCategory"}

\* C33: a day recompute recomputes every non-deleted category of the day
\* before it sums, so right after it every non-deleted category of the day
\* stores the score and max_score derived from its targets, also when some
\* of them were stale before
C33_DayRecomputeBottomUp ==
    (last.op \in DayRecomputeOps /\ last.done) =>
        \A c \in LiveCategories(last.day) :
            /\ cats[c].score = DerivedScore(c)
            /\ cats[c].max_score = DerivedMaxScore(c)

\* C33 witness: a direct day recompute found a stale category and the day
\* has a category with an achieved target
C33_Witness ==
    /\ last.op = "RecalculateDay"
    /\ last.stale
    /\ last.done
    /\ \E c \in LiveCategories(last.day) : cats[c].score > 0

\* ------------------------------------------------------------------ C34
\* the stored scores of the day, its categories and its targets are what
\* they were before the step
DayUntouched(day) ==
    /\ days'[day].score = days[day].score
    /\ days'[day].max_score = days[day].max_score
    /\ \A c \in CatIds : (cats[c].exists /\ cats[c].day = day) => cats'[c] = cats[c]
    /\ \A t \in TargetIds :
          (tgts[t].exists /\ cats[tgts[t].category].day = day) => tgts'[t] = tgts[t]

\* C34: a mutation of a target or a category of a day D (create, toggle,
\* rename, soft delete, hard delete) leaves the stored score and max_score of
\* every other day, and every category and target of every other day,
\* unchanged
C34_CrossDayIndependence ==
    [][last'.op \in TargetOps \cup CategoryOps =>
          \A day \in DayIds : day # last'.day => DayUntouched(day)]_vars

\* C34 witness: a target was toggled while another day has a category with
\* a target of its own
C34_Witness ==
    /\ last.op = "ToggleAchievement"
    /\ \E t \in TargetIds :
          /\ tgts[t].exists
          /\ cats[tgts[t].category].day # last.day
          /\ days[cats[tgts[t].category].day].exists

\* ------------------------------------------------------------------ C35
\* a stored pair is NULL or satisfies 0 <= score <= max_score
Bounded(score, max_score) ==
    (score # Null /\ max_score # Null) => (0 <= score /\ score <= max_score)

\* C35: after every completed mutation of a sequential execution, every
\* category and every day whose stored scores are not NULL has
\* 0 <= score <= max_score
C35_ScoreBoundedByMax ==
    last.done =>
        /\ \A c \in CatIds : cats[c].exists => Bounded(cats[c].score, cats[c].max_score)
        /\ \A day \in DayIds : days[day].exists => Bounded(days[day].score, days[day].max_score)

\* C35 witness: the score of an importance level was changed while a
\* category stores a score above 0, and the category and its day are bounded
C35_Witness ==
    /\ last.op = "UpdateImportance"
    /\ last.ok
    /\ last.done
    /\ \E c \in CatIds :
          /\ cats[c].exists
          /\ cats[c].score > 0
          /\ cats[c].score <= cats[c].max_score
          /\ days[cats[c].day].score > 0
          /\ days[cats[c].day].score <= days[cats[c].day].max_score

\* ------------------------------------------------------------------ C36
\* the stored scores of the category of target t, of the other non-deleted
\* categories of its day and of the day are up to date
CachesUpToDate(t) ==
    LET c == tgts[t].category
        day == cats[c].day
    IN  /\ cats[c].score = DerivedScore(c)
        /\ cats[c].max_score = DerivedMaxScore(c)
        /\ \A e \in LiveCategories(day) : CategoryUpToDate(e)
        /\ days[day].score # Null
        /\ days[day].max_score # Null
        /\ DayUpToDate(day)

\* the step toggled target t: the scores of its category and its day moved
\* by the importance score of t, the max_scores stayed, and a second toggle
\* of t right after it gives back is_achieved and the stored scores
ToggledAndBack(t) ==
    LET c == tgts[t].category
        day == cats[c].day
        w == imps[tgts[t].importance].score
        delta == IF tgts[t].is_achieved THEN 0 - w ELSE w
        second == toggle_achievement(DB', t)
    IN  /\ tgts'[t].is_achieved = ~tgts[t].is_achieved
        /\ cats'[c].score = cats[c].score + delta
        /\ cats'[c].max_score = cats[c].max_score
        /\ days'[day].score = days[day].score + delta
        /\ days'[day].max_score = days[day].max_score
        /\ second.tgts[t].is_achieved = tgts[t].is_achieved
        /\ second.cats[c].score = cats[c].score
        /\ second.cats[c].max_score = cats[c].max_score
        /\ second.days[day].score = days[day].score
        /\ second.days[day].max_score = days[day].max_score

\* C36 as stated: from caches that are up to date, a toggle of a non-deleted
\* target moves the score of its category and of its day by the importance
\* score of the target and leaves the max_scores, and two toggles in sequence
\* restore is_achieved and the stored scores of the category and the day
C36_ToggleInvolution_AsStated ==
    [][\A t \in TargetIds :
          (/\ last'.op = "ToggleAchievement"
           /\ last'.tgt = t
           /\ ~tgts[t].is_deleted
           /\ CachesUpToDate(t)) => ToggledAndBack(t)]_vars

\* C36 amended: the same for a non-deleted target of a non-deleted category;
\* the day does not count the targets of a soft-deleted category
C36_ToggleInvolution ==
    [][\A t \in TargetIds :
          (/\ last'.op = "ToggleAchievement"
           /\ last'.tgt = t
           /\ ~tgts[t].is_deleted
           /\ ~cats[tgts[t].category].is_deleted
           /\ CachesUpToDate(t)) => ToggledAndBack(t)]_vars

\* C36 witness: a target of a non-deleted category was toggled twice in
\* sequence, the caches are up to date, and the category has a score
C36_Witness ==
    /\ last.op = "ToggleAchievement"
    /\ last.twice
    /\ ~tgts[last.tgt].is_deleted
    /\ ~cats[last.cat].is_deleted
    /\ CachesUpToDate(last.tgt)
    /\ cats[last.cat].max_score > 0

\* ------------------------------------------------------------------ C37
\* the targets that reference importance level i
Referencing(i) == {t \in TargetIds : tgts[t].exists /\ tgts[t].importance = i}

\* C37: deleteImportance of a level that only soft-deleted targets reference
\* passes the guard and deletes the rows of these targets together with the
\* level; in every reachable state every target references an existing level
C37_ImportanceDeleteCascade ==
    [][/\ \A i \in ImpIds :
            (/\ last'.op = "DeleteImportance"
             /\ last'.imp = i
             /\ \A t \in Referencing(i) : tgts[t].is_deleted)
               => /\ last'.ok
                  /\ ~imps'[i].exists
                  /\ \A t \in Referencing(i) : ~tgts'[t].exists
       /\ \A t \in TargetIds : tgts'[t].exists => imps'[tgts'[t].importance].exists]_vars

\* C37 witness: a level was deleted and the rows of the soft-deleted targets
\* that referenced it went with it
C37_Witness ==
    /\ last.op = "DeleteImportance"
    /\ last.ok
    /\ last.value > 1
    /\ ~imps[last.imp].exists
    /\ \A t \in TargetIds : ~tgts[t].exists

\* ------------------------------------------------------------------ C38
\* a soft-deleted category of the day holds exactly the name
HeldByDeleted(day, name) ==
    \E e \in CatIds :
        cats[e].exists /\ cats[e].day = day /\ cats[e].is_deleted /\ cats[e].name = name

\* a non-deleted category of the day has the name, ignoring case
HeldByLive(day, name) ==
    \E e \in CatIds :
        /\ cats[e].exists
        /\ cats[e].day = day
        /\ ~cats[e].is_deleted
        /\ SameIgnoringCase(cats[e].name, name, MaxTexts)

\* C38: createCategory with the name of a soft-deleted category of the same
\* day is rejected, no category is created and no row or stored score
\* changes; when no non-deleted category of the day has the name, the form
\* accepts it and the (day, name) constraint of the table rejects the insert
C38_DeletedNameReuseFails ==
    [][\A name \in Names :
          (/\ last'.op = "TargetCategoryCreateView"
           /\ last'.name = name
           /\ days[today].exists
           /\ HeldByDeleted(today, name))
             => /\ ~last'.ok
                /\ \A c \in CatIds : cats'[c].exists = cats[c].exists
                /\ NothingChanged
                /\ ~HeldByLive(today, name) => last'.status = ServerError]_vars

\* C38 witness: a create request carried the name of a soft-deleted category
\* of the day and failed in the insert
C38_Witness ==
    /\ last.op = "TargetCategoryCreateView"
    /\ last.status = ServerError
    /\ ~last.ok
    /\ HeldByDeleted(last.day, last.name)
    /\ ~HeldByLive(last.day, last.name)

\* ------------------------------------------------------------------ C39
\* request p runs the save of its sleep/wake form in this step
SavesSleepWake(p) ==
    /\ procs[p].op = "sleep_wake"
    /\ procs[p].pc = "sw_save"
    /\ procs'[p].pc = "done"

\* C39: setSleepWakeTimes changes only wake_time and sleep_time of the day;
\* the stored score and max_score of the day after it are the values that
\* the last recompute wrote, also when a toggle of a target of the day
\* completes between the load of the day and its save
C39_SleepWakeKeepsScores ==
    [][\A p \in Procs :
          SavesSleepWake(p) =>
              /\ days'[procs[p].day].score = days[procs[p].day].score
              /\ days'[procs[p].day].max_score = days[procs[p].day].max_score
              /\ \A day \in DayIds \ {procs[p].day} : days'[day] = days[day]
              /\ UNCHANGED <<cats, tgts, imps>>]_vars

====
